---- MODULE Spec2Model ----
(***************************************************************************)
(* Cloud sync of the wish-history export: the Electron main-process client *)
(* (cloud sync module: transport, metadata, local backup, upload,          *)
(* download, IPC handlers) and the Apps Script remote store                *)
(* (GOOGLE_APPS_SCRIPT.gs).                                                *)
(*                                                                         *)
(* An IPC handler is an async function: it runs from one await to the next *)
(* without interruption, so each action below is one such run.             *)
(***************************************************************************)
EXTENDS Integers, Sequences, FiniteSets, TLC

(***************************************************************************)
(* Program constants.                                                      *)
(***************************************************************************)
SCHEMA_VERSION == 1

CURRENT_SCHEMA_VERSION == 1

\* createLocalBackup keeps backups[0..9] of the reverse-sorted listing.
KEEP_BACKUPS == 10

(***************************************************************************)
(* Bounds of the model.                                                    *)
(***************************************************************************)
\* Last clock value at which a handler invocation starts, in the
\* specification of whole operations.
MaxClock == 3

\* The same, in the specification of repeated backups.
MaxBackupClock == 24

\* Redirects the modelled endpoint answers one call with, in the
\* specification of whole operations.
MaxHops == 1

\* The same, in the specification of redirect chains.
MaxChain == 7

\* Redirects one call follows, in the specification of the requests on the
\* wire.
MaxFollow == 2

\* Last clock value at which a handler invocation starts, in the same
\* specification.
MaxWireClock == 2

\* Last clock value at which a handler invocation starts, in the
\* specification of uploads of the direct Drive implementation.
MaxDriveClock == 5

\* Last clock value at which a handler invocation starts, in the
\* specification of overlapping invocations.
MaxOverlapClock == 2

\* The largest schemaVersion of an envelope posted to the endpoint, in the
\* specification of the remote store.
MaxVersion == 2

\* The latest timestamp among the backup files found at startup, in the
\* specification of downloads into a used backup directory.
MaxStamp == 20

(***************************************************************************)
(* JSON values.  A document is a JavaScript object: its fields in          *)
(* insertion order.  A field value is an array of items, an object, a      *)
(* scalar or null; an item (an account bucket, a wish record) is an object *)
(* whose own list is an array of len entries, something else, or missing.  *)
(***************************************************************************)
Item(isObject, listKind, len) ==
    [isObject |-> isObject, listKind |-> listKind, len |-> len]

\* One wish record of a flat list.
WishRecord == Item(TRUE, "absent", 0)

\* One account bucket of a multi-account document, holding n records.
Account(n) == Item(TRUE, "array", n)

Value(kind, items, num) == [kind |-> kind, items |-> items, num |-> num]

ArrayOf(items) == Value("array", items, 0)

ObjectValue == Value("object", <<>>, 0)

Scalar(n) == Value("scalar", <<>>, n)

Null == Value("null", <<>>, 0)

Field(key, val) == [key |-> key, val |-> val]

HasKey(doc, key) == \E i \in 1..Len(doc) : doc[i].key = key

\* doc[key]; only used where HasKey(doc, key).
Get(doc, key) == doc[CHOOSE i \in 1..Len(doc) : doc[i].key = key].val

\* JavaScript truthiness of doc[key]: missing, null, 0 are falsy; arrays and
\* objects (also empty ones) are truthy.
Truthy(doc, key) ==
    /\ HasKey(doc, key)
    /\ LET v == Get(doc, key)
       IN  \/ v.kind \in {"array", "object"}
           \/ v.kind = "scalar" /\ v.num # 0

IsArray(doc, key) == HasKey(doc, key) /\ Get(doc, key).kind = "array"

\* obj[key] = val: replaces the value in place when the key exists, appends
\* the field otherwise.
SetField(doc, key, val) ==
    IF HasKey(doc, key)
    THEN [i \in 1..Len(doc) |->
            IF doc[i].key = key THEN Field(key, val) ELSE doc[i]]
    ELSE Append(doc, Field(key, val))

(***************************************************************************)
(* JSON.stringify / JSON.parse.  The text of an object is the sequence of  *)
(* its members <<key, value>> in insertion order, between braces.          *)
(***************************************************************************)
Stringify(doc) ==
    <<"{">> \o [i \in 1..Len(doc) |-> <<doc[i].key, doc[i].val>>] \o <<"}">>

Parse(text) ==
    [i \in 1..(Len(text) - 2) |-> Field(text[i + 1][1], text[i + 1][2])]

(***************************************************************************)
(* SHA-256 as a collision-free digest of the text.                         *)
(***************************************************************************)
NullHash == [isNull |-> TRUE, of |-> <<>>]

Sha256(text) == [isNull |-> FALSE, of |-> text]

\* Client calculateHash applied to an object (typeof data !== 'string').
calculateHash(data) == Sha256(Stringify(data))

\* Client calculateHash applied to a string.
calculateHashOfText(text) == Sha256(text)

(***************************************************************************)
(* countRecords (client and remote have the same code).                    *)
(***************************************************************************)
RECURSIVE SumLists(_)
SumLists(items) ==
    IF items = <<>> THEN 0
    ELSE (IF Head(items).listKind = "array" THEN Head(items).len ELSE 0)
         + SumLists(Tail(items))

countRecords(data) ==
    IF Truthy(data, "hk4e") /\ IsArray(data, "hk4e")
    THEN SumLists(Get(data, "hk4e").items)
    ELSE IF Truthy(data, "list") /\ IsArray(data, "list")
         THEN Len(Get(data, "list").items)
         ELSE 0

\* An entry of hk4e that is null: reading its list property throws a
\* TypeError.
NullItem == Item(FALSE, "TypeError", 0)

\* Whether the forEach callback of countRecords throws on account.list.
countRecordsThrows(data) ==
    /\ Truthy(data, "hk4e") /\ IsArray(data, "hk4e")
    /\ \E i \in 1..Len(Get(data, "hk4e").items) :
            Get(data, "hk4e").items[i].listKind = "TypeError"

\* countRecords of the Apps Script.
RECURSIVE scriptSumLists(_)
scriptSumLists(items) ==
    IF items = <<>> THEN 0
    ELSE (IF Head(items).listKind = "array" THEN Head(items).len ELSE 0)
         + scriptSumLists(Tail(items))

scriptCountRecords(data) ==
    IF Truthy(data, "hk4e") /\ IsArray(data, "hk4e")
    THEN scriptSumLists(Get(data, "hk4e").items)
    ELSE IF Truthy(data, "list") /\ IsArray(data, "list")
         THEN Len(Get(data, "list").items)
         ELSE 0

scriptCountRecordsThrows(data) ==
    /\ Truthy(data, "hk4e") /\ IsArray(data, "hk4e")
    /\ \E i \in 1..Len(Get(data, "hk4e").items) :
            Get(data, "hk4e").items[i].listKind = "TypeError"

(***************************************************************************)
(* The local wish data and the UIGFJson collaborator.  The local data is   *)
(* the record count of every account, the current account first; <<>> is   *)
(* "no data".                                                              *)
(***************************************************************************)
RECURSIVE Records(_)
Records(n) == IF n = 0 THEN <<>> ELSE <<WishRecord>> \o Records(n - 1)

NoData == <<>>

\* generateUigf30Json: the current account as a flat list.
generateUigf30Json(data) ==
    <<Field("info", ObjectValue), Field("list", ArrayOf(Records(data[1])))>>

\* generateUigf41Json: one bucket per account.
generateUigf41Json(data) ==
    <<Field("info", ObjectValue),
      Field("hk4e", ArrayOf([i \in 1..Len(data) |-> Account(data[i])]))>>

\* The generator the configuration selects (config.uigfVersion === '3.0').
Generate(version, data) ==
    IF version = "3.0" THEN generateUigf30Json(data) ELSE generateUigf41Json(data)

\* Both generators throw when there is no local data.
GenerateFails(data) == data = NoData

\* What importUgif41Json / importUgif30Json leave as local data.
Imported41(doc) ==
    LET items == Get(doc, "hk4e").items
    IN  [i \in 1..Len(items) |->
            IF items[i].listKind = "array" THEN items[i].len ELSE 0]

Imported30(doc) == <<Len(Get(doc, "list").items)>>

\* A document the importers can read: hk4e (resp. list) is an array of objects.
Importable41(doc) ==
    /\ IsArray(doc, "hk4e")
    /\ Get(doc, "hk4e").items # <<>>
    /\ \A i \in 1..Len(Get(doc, "hk4e").items) : Get(doc, "hk4e").items[i].isObject

Importable30(doc) == IsArray(doc, "list") /\ Get(doc, "list").items # <<>>

(***************************************************************************)
(* The remote store (GOOGLE_APPS_SCRIPT.gs).                               *)
(***************************************************************************)
APP_VERSION == 1

NoFile == [exists |-> FALSE, content |-> <<>>, updated |-> 0]

DriveFile(content, updated) ==
    [exists |-> TRUE, content |-> content, updated |-> updated]

NoDoc == <<>>

\* A JSON reply; exists is "undefined" and hasPayload FALSE where the script
\* sets no such field, schemaVersion 0 where it sets none.
Reply(status, error, exists, ts, hash, count, version, hasPayload, payload) ==
    [status |-> status, error |-> error, exists |-> exists,
     cloudTimestamp |-> ts, cloudHash |-> hash, recordCount |-> count,
     schemaVersion |-> version, hasPayload |-> hasPayload, payload |-> payload]

ErrorReply(error, exists) ==
    Reply("error", error, exists, 0, NullHash, 0, 0, FALSE, NoDoc)

\* data._schemaVersion || 1
StoredVersion(data) ==
    IF Truthy(data, "_schemaVersion") THEN Get(data, "_schemaVersion").num ELSE 1

getMetadata(file) ==
    IF ~file.exists
    THEN Reply("ok", "", "false", 0, NullHash, 0, 0, FALSE, NoDoc)
    ELSE LET data == Parse(file.content)
         IN  Reply("ok", "", "true", file.updated, Sha256(file.content),
                   countRecords(data), StoredVersion(data), FALSE, NoDoc)

\* Mutant: downloadData answers an empty store with status "ok".
downloadDataOkWhenMissing(file) ==
    IF ~file.exists
    THEN Reply("ok", "", "false", 0, NullHash, 0, 0, FALSE, NoDoc)
    ELSE LET data == Parse(file.content)
         IN  Reply("ok", "", "undefined", file.updated, Sha256(file.content),
                   countRecords(data), StoredVersion(data), TRUE, data)

downloadData(file) ==
    IF ~file.exists
    THEN ErrorReply("No data file found in cloud storage", "false")
    ELSE LET data == Parse(file.content)
         IN  Reply("ok", "", "undefined", file.updated, Sha256(file.content),
                   countRecords(data), StoredVersion(data), TRUE, data)

\* An upload request as doPost parses it.
UploadRequest(schemaVersion, appVersion, clientId, timestamp, dataHash, hasPayload, payload) ==
    [action |-> "upload", schemaVersion |-> schemaVersion,
     appVersion |-> appVersion, clientId |-> clientId, timestamp |-> timestamp,
     dataHash |-> dataHash, hasPayload |-> hasPayload, payload |-> payload]

PlainRequest(action) ==
    [action |-> action, schemaVersion |-> 0, appVersion |-> 0, clientId |-> 0,
     timestamp |-> 0, dataHash |-> NullHash, hasPayload |-> FALSE,
     payload |-> NoDoc]

\* The provenance fields uploadData adds to the payload.
Stamp(request, time) ==
    SetField(SetField(SetField(SetField(request.payload,
        "_schemaVersion", Scalar(CURRENT_SCHEMA_VERSION)),
        "_uploadTimestamp", Scalar(time)),
        "_clientId", Scalar(request.clientId)),
        "_appVersion", Scalar(request.appVersion))

\* createBackupOfFile: the backup folder gains a copy of the file's content.
createBackupOfFile(file, folder) == folder \cup {file.content}

\* Mutant: uploadData overwrites the data file without copying it first.
uploadDataWithoutBackup(request, file, folder, time) ==
    IF request.schemaVersion # 0 /\ request.schemaVersion > CURRENT_SCHEMA_VERSION
    THEN [reply |-> ErrorReply("Incompatible schema version. Please update the Apps Script.",
                               "undefined"),
          file |-> file, folder |-> folder]
    ELSE IF ~request.hasPayload
    THEN [reply |-> ErrorReply("Missing payload in upload request", "undefined"),
          file |-> file, folder |-> folder]
    ELSE LET payload == Stamp(request, time)
             content == Stringify(payload)
         IN  [reply |-> Reply("ok", "", "undefined", time, Sha256(content),
                              countRecords(payload), 0, FALSE, NoDoc),
              file |-> DriveFile(content, time),
              folder |-> folder]

\* Mutant: uploadData without the schema version check.
uploadDataAnyVersion(request, file, folder, time) ==
    IF ~request.hasPayload
    THEN [reply |-> ErrorReply("Missing payload in upload request", "undefined"),
          file |-> file, folder |-> folder]
    ELSE LET payload == Stamp(request, time)
             content == Stringify(payload)
         IN  [reply |-> Reply("ok", "", "undefined", time, Sha256(content),
                              countRecords(payload), 0, FALSE, NoDoc),
              file |-> DriveFile(content, time),
              folder |-> IF file.exists THEN createBackupOfFile(file, folder)
                         ELSE folder]

\* uploadData: the reply, the data file and the backup folder afterwards.
uploadData(request, file, folder, time) ==
    IF request.schemaVersion # 0 /\ request.schemaVersion > CURRENT_SCHEMA_VERSION
    THEN [reply |-> ErrorReply("Incompatible schema version. Please update the Apps Script.",
                            "undefined"),
          file |-> file, folder |-> folder]
    ELSE IF ~request.hasPayload
    THEN [reply |-> ErrorReply("Missing payload in upload request", "undefined"),
          file |-> file, folder |-> folder]
    ELSE LET payload == Stamp(request, time)
             content == Stringify(payload)
         IN  [reply |-> Reply("ok", "", "undefined", time, Sha256(content),
                              countRecords(payload), 0, FALSE, NoDoc),
              file |-> DriveFile(content, time),
              folder |-> IF file.exists THEN createBackupOfFile(file, folder)
                         ELSE folder]

\* doPost: dispatch on request.action.
doPost(request, file, folder, time) ==
    CASE request.action = "metadata" ->
            [reply |-> getMetadata(file), file |-> file, folder |-> folder]
      [] request.action = "upload" -> uploadData(request, file, folder, time)
      [] request.action = "download" ->
            [reply |-> downloadData(file), file |-> file, folder |-> folder]
      [] OTHER ->
            [reply |-> ErrorReply("Invalid action", "undefined"),
             file |-> file, folder |-> folder]

\* doGet: a GET is a metadata probe.
doGet(file, folder) ==
    [reply |-> getMetadata(file), file |-> file, folder |-> folder]

(***************************************************************************)
(* The client (cloud sync module of the main process).                     *)
(***************************************************************************)
VARIABLES
    config,        \* the in-memory config object
    disk,          \* what config.save() last persisted
    localData,     \* the local wish data
    backupDir,     \* cloud-sync-backups: the timestamps naming its files
    remoteFile,    \* the data file in Drive
    remoteFolder,  \* the contents of the files in the Drive backup folder
    now,           \* the wall clock, in milliseconds
    uuids,         \* how many values crypto.randomUUID() has returned
    written,       \* history: the names of all backup files ever written
    uploaded,      \* history: the payload of the upload the remote stored last
    ops,           \* the IPC handler invocations, one per slot
    ui,            \* the cloud sync part of the settings page
    wire,          \* history: the HTTP requests of the current makeRequest call
    drive          \* the file id the direct Drive implementation remembers

vars == <<config, disk, localData, backupDir, remoteFile, remoteFolder, now,
          uuids, written, uploaded, ops, ui, wire, drive>>

Slots == {"a", "b"}

Urls == {"unset", "invalid", "valid"}

Min(a, b) == IF a < b THEN a ELSE b

\* cloudSyncState and cloudSyncDialog of Setting.vue.  handler is the
\* handleCloud* function that awaits the conflict check; storeHeld and
\* confirmed are history: whether the store held a document when the user
\* clicked, and whether the user has confirmed since.
UiIdle ==
    [loading |-> FALSE, uploading |-> FALSE, downloading |-> FALSE,
     visible |-> FALSE, action |-> "", handler |-> "none",
     storeHeld |-> FALSE, confirmed |-> FALSE]

\* config.googleDriveFileId, in memory and as config.save() last persisted
\* it (0 for none), and how many files drive.files.create has created.
NoDrive == [fileId |-> 0, savedFileId |-> 0, created |-> 0]

(***************************************************************************)
(* createLocalBackup.  A backup file is named backup_<ISO timestamp>.json, *)
(* so names sort as their timestamps do; the directory holds no other file.*)
(* fsFault names the file-system call that throws, if any; removed is how  *)
(* many fs.remove calls succeed before a throwing one.                     *)
(***************************************************************************)
FsFaults == {"none", "ensureDir", "writeJson", "readdir", "remove"}

\* files.filter(...).sort().reverse(): the names, latest first.
RECURSIVE SortedReverse(_)
SortedReverse(files) ==
    IF files = {} THEN <<>>
    ELSE LET latest == CHOOSE f \in files : \A g \in files : g <= f
         IN  <<latest>> \o SortedReverse(files \ {latest})

\* Mutant: the loop starts one entry late, "for (i = 11; ...".
ExcessOffByOne(files) ==
    LET backups == SortedReverse(files)
    IN  [i \in 1..(Len(backups) - Min(Len(backups), KEEP_BACKUPS + 1)) |->
            backups[i + KEEP_BACKUPS + 1]]

\* The names the loop "for (i = 10; i < backups.length; i++)" visits.
Excess(files) ==
    LET backups == SortedReverse(files)
    IN  [i \in 1..(Len(backups) - Min(Len(backups), KEEP_BACKUPS)) |->
            backups[i + KEEP_BACKUPS]]

\* The directory after the first k removals of the loop.
RemoveFirst(files, k) ==
    files \ {Excess(files)[i] : i \in 1..Min(k, Len(Excess(files)))}

\* The directory after the whole loop.
Prune(files) == RemoveFirst(files, Len(Excess(files)))

\* path is 0 for null; wrote tells whether fs.writeJson wrote the file.
createLocalBackup(dir, data, time, fsFault, removed) ==
    IF fsFault = "ensureDir" \/ GenerateFails(data) \/ fsFault = "writeJson"
    THEN [dir |-> dir, path |-> 0, wrote |-> FALSE]
    ELSE LET files == dir \cup {time}
         IN  IF fsFault = "readdir"
             THEN [dir |-> files, path |-> 0, wrote |-> TRUE]
             ELSE IF fsFault = "remove" /\ Len(Excess(files)) > 0
             THEN [dir |-> RemoveFirst(files, Min(removed, Len(Excess(files)) - 1)),
                   path |-> 0, wrote |-> TRUE]
             ELSE [dir |-> Prune(files), path |-> time, wrote |-> TRUE]

(***************************************************************************)
(* One handler invocation.                                                 *)
(***************************************************************************)
NoReply == ErrorReply("", "undefined")

EmptyMeta == [exists |-> FALSE, timestamp |-> 0, hash |-> NullHash, recordCount |-> 0]

Settlement(ok, error) == [ok |-> ok, error |-> error]

\* What a handler returns.  shape is "object" for {status, ...} and "string"
\* for the legacy handlers, which return 'success' or a message in error.
Result(shape, status, error, backupPath, backupPreserved) ==
    [shape |-> shape, status |-> status, error |-> error,
     backupPath |-> backupPath, backupPreserved |-> backupPreserved,
     hasConflict |-> "undefined", cloud |-> EmptyMeta, local |-> EmptyMeta,
     sideKeys |-> {}, cloudTimestamp |-> 0, recordCount |-> 0]

NoResult == Result("none", "", "", 0, FALSE)

Snapshot ==
    [config |-> config, disk |-> disk, localData |-> localData,
     backupDir |-> backupDir]

IdleOp ==
    [kind |-> "none", pc |-> "idle", log |-> <<>>, backupPath |-> 0,
     wrote |-> FALSE, request |-> PlainRequest("none"), method |-> "none",
     hops |-> 0, echo |-> FALSE, reached |-> FALSE, reply |-> NoReply,
     settle |-> Settlement(TRUE, ""), localMeta |-> EmptyMeta,
     doc |-> NoDoc, escaped |-> {}, result |-> NoResult,
     pre |-> [config |-> [url |-> "unset", uigfVersion |-> "3.0", clientId |-> 0,
                          lastSync |-> 0],
              disk |-> [clientId |-> 0, lastSync |-> 0],
              localData |-> NoData, backupDir |-> {}]]

NewOp(kind, pc) == [IdleOp EXCEPT !.kind = kind, !.pc = pc, !.pre = Snapshot]

Finish(op, result) == [op EXCEPT !.pc = "done", !.result = result]

\* The synchronous part of makeRequest(payload): the promise executor.
makeRequest(op, request, url) ==
    IF url = "unset"
    THEN [op EXCEPT !.pc = "settled",
                    !.settle = Settlement(FALSE, "Please set Google Apps Script URL in settings.")]
    ELSE IF url = "invalid"
    THEN [op EXCEPT !.pc = "settled", !.settle = Settlement(FALSE, "Invalid URL")]
    ELSE [op EXCEPT !.pc = "wait", !.request = request, !.method = "POST",
                    !.hops = 0, !.log = Append(op.log, "request")]

\* config.save(): the whole config object goes to config.json.
Persisted(cfg) == [clientId |-> cfg.clientId, lastSync |-> cfg.lastSync]

Ready(s) == ops[s].pc \in {"idle", "done"}

Legacy(kind) == kind \in {"legacyUpload", "legacyDownload"}

(***************************************************************************)
(* What the handlers return.                                               *)
(***************************************************************************)
\* The catch clause of the handler that runs `op`, for an error thrown by
\* uploadToCloud or downloadFromCloud.
Caught(op, message) ==
    CASE op.kind = "upload" -> Result("object", "error", message, 0, FALSE)
      [] op.kind = "download" ->
            Result("object", "error", message, op.backupPath, TRUE)
      [] OTHER -> Result("string", "", message, 0, FALSE)

\* The value the handler returns when its call returned `reply`.
Returned(op, reply) ==
    CASE op.kind = "upload" ->
            [Result("object", "ok", "", 0, FALSE) EXCEPT
                !.cloudTimestamp = reply.cloudTimestamp,
                !.recordCount = reply.recordCount]
      [] op.kind = "download" ->
            [Result("object", "ok", "", op.backupPath, FALSE) EXCEPT
                !.cloudTimestamp = reply.cloudTimestamp,
                !.recordCount = reply.recordCount]
      [] OTHER -> Result("string", "", "success", 0, FALSE)

(***************************************************************************)
(* CLOUD_SYNC_GET_METADATA.                                                *)
(***************************************************************************)
getLocalMetadata(cfg, data, time) ==
    IF GenerateFails(data)
    THEN EmptyMeta
    ELSE LET doc == Generate(cfg.uigfVersion, data)
         IN  [exists |-> TRUE,
              timestamp |-> IF cfg.lastSync # 0 THEN cfg.lastSync ELSE time,
              hash |-> calculateHashOfText(Stringify(doc)),
              recordCount |-> countRecords(doc)]

\* getCloudMetadata() with the handler's .catch(e => ({exists: false, ...})).
getCloudMetadata(settle, reply) ==
    IF ~settle.ok THEN ErrorReply(settle.error, "false")
    ELSE IF reply.status = "error" THEN ErrorReply(reply.error, "false")
    ELSE reply

\* Mutant: the conflict flag compares the hashes only.
HasConflictHashOnly(cloudMeta, localMeta) ==
    IF cloudMeta.cloudHash # localMeta.hash THEN "true" ELSE "false"

\* cloudMeta.exists && localMeta.exists && cloudMeta.cloudHash !== localMeta.localHash
HasConflict(cloudMeta, localMeta) ==
    IF cloudMeta.exists # "true" THEN cloudMeta.exists
    ELSE IF ~localMeta.exists THEN "false"
    ELSE IF cloudMeta.cloudHash # localMeta.hash THEN "true" ELSE "false"

\* The keys of the cloud and local objects of the handler's return value.
SideKeys == {"exists", "timestamp", "timestampFormatted", "hash", "recordCount"}

MetadataResult(cloudMeta, localMeta) ==
    [Result("object", "ok", "", 0, FALSE) EXCEPT
        !.cloud = [exists |-> cloudMeta.exists = "true",
                   timestamp |-> cloudMeta.cloudTimestamp,
                   hash |-> cloudMeta.cloudHash,
                   recordCount |-> cloudMeta.recordCount],
        !.local = localMeta,
        !.sideKeys = SideKeys,
        !.hasConflict = HasConflict(cloudMeta, localMeta)]

\* The handler up to its await: both fetches are started; the local one
\* reads the local data and the configuration.
StartMetadata(s) ==
    /\ Ready(s)
    /\ now' = now + 1
    /\ ops' = [ops EXCEPT ![s] =
            makeRequest([NewOp("metadata", "start") EXCEPT
                            !.localMeta = getLocalMetadata(config, localData, now')],
                        PlainRequest("metadata"), config.url)]
    /\ UNCHANGED <<config, disk, localData, backupDir, remoteFile,
                   remoteFolder, uuids, written, uploaded>>

\* Mutant: the handler records the time of the check as last sync.
ContinueMetadataStampsSync(s) ==
    /\ ops[s].pc = "settled"
    /\ ops[s].kind = "metadata"
    /\ config' = [config EXCEPT !.lastSync = now]
    /\ disk' = Persisted(config')
    /\ ops' = [ops EXCEPT ![s] =
            Finish(@, MetadataResult(getCloudMetadata(@.settle, @.reply), @.localMeta))]
    /\ UNCHANGED <<localData, backupDir, remoteFile, remoteFolder, now, uuids,
                   written, uploaded>>

ContinueMetadata(s) ==
    /\ ops[s].pc = "settled"
    /\ ops[s].kind = "metadata"
    /\ ops' = [ops EXCEPT ![s] =
            Finish(@, MetadataResult(getCloudMetadata(@.settle, @.reply), @.localMeta))]
    /\ UNCHANGED <<config, disk, localData, backupDir, remoteFile,
                   remoteFolder, now, uuids, written, uploaded>>

(***************************************************************************)
(* CLOUD_SYNC_UPLOAD and the legacy GOOGLE_DRIVE_UPLOAD: uploadToCloud.    *)
(***************************************************************************)
StartUpload(s) ==
    /\ Ready(s)
    /\ now' = now + 1
    /\ \E kind \in {"upload", "legacyUpload"} :
            ops' = [ops EXCEPT ![s] = NewOp(kind, "generate")]
    /\ UNCHANGED <<config, disk, localData, backupDir, remoteFile,
                   remoteFolder, uuids, written, uploaded>>

\* getClientId: the identifier after the call, given what randomUUID returns.
\* Mutant: getClientId generates an identifier on every call.
getClientIdAlwaysFresh(cfg, uuid) == uuid

getClientId(cfg, uuid) == IF cfg.clientId = 0 THEN uuid ELSE cfg.clientId

\* Mutant: uploadToCloud obtains the client identifier before it generates
\* the document.
GeneratedAfterClientId(s) ==
    /\ ops[s].pc = "generate"
    /\ \E saved \in BOOLEAN :
        LET fresh == config.clientId = 0
            cfg == [config EXCEPT !.clientId = getClientId(config, uuids + 1)]
        IN  /\ config' = cfg
            /\ uuids' = IF fresh THEN uuids + 1 ELSE uuids
            /\ disk' = IF fresh /\ saved THEN Persisted(cfg) ELSE disk
            /\ ops' = [ops EXCEPT ![s] =
                    IF GenerateFails(localData)
                    THEN Finish(@, Caught(@, "No local data"))
                    ELSE makeRequest(
                            [@ EXCEPT !.doc = Generate(config.uigfVersion, localData)],
                            UploadRequest(SCHEMA_VERSION, APP_VERSION, cfg.clientId,
                                          now, calculateHash(Generate(config.uigfVersion, localData)),
                                          TRUE, Generate(config.uigfVersion, localData)),
                            config.url)]
    /\ UNCHANGED <<localData, backupDir, remoteFile, remoteFolder, now,
                   written, uploaded>>

\* uploadToCloud from the end of generation to the request: getClientId
\* (whose config.save() is not awaited, so that nothing catches its
\* rejection), the envelope, makeRequest.
Generated(s) ==
    /\ ops[s].pc = "generate"
    /\ IF GenerateFails(localData)
       THEN /\ ops' = [ops EXCEPT ![s] = Finish(@, Caught(@, "No local data"))]
            /\ UNCHANGED <<config, disk, uuids>>
       ELSE \E saved \in BOOLEAN :
            LET data == Generate(config.uigfVersion, localData)
                fresh == config.clientId = 0
                cfg == [config EXCEPT !.clientId = getClientId(config, uuids + 1)]
            IN  /\ config' = cfg
                /\ uuids' = IF fresh THEN uuids + 1 ELSE uuids
                /\ disk' = IF fresh /\ saved THEN Persisted(cfg) ELSE disk
                /\ ops' = [ops EXCEPT ![s] =
                        makeRequest(
                            [@ EXCEPT !.doc = data,
                                      !.escaped = IF fresh /\ ~saved
                                                  THEN @ \cup {"unhandledRejection"}
                                                  ELSE @],
                            UploadRequest(SCHEMA_VERSION, APP_VERSION, cfg.clientId,
                                          now, calculateHash(data), TRUE, data),
                            config.url)]
    /\ UNCHANGED <<localData, backupDir, remoteFile, remoteFolder, now,
                   written, uploaded>>

\* Mutant: uploadToCloud sets googleDriveLastSync before it looks at the
\* outcome of the request.
ContinueUploadStampsFirst(s) ==
    /\ ops[s].pc = "settled"
    /\ ops[s].kind \in {"upload", "legacyUpload"}
    /\ LET op == ops[s]
       IN  /\ config' = [config EXCEPT !.lastSync = now]
           /\ disk' = Persisted(config')
           /\ ops' = [ops EXCEPT ![s] =
                  Finish(op, IF ~op.settle.ok THEN Caught(op, op.settle.error)
                             ELSE IF op.reply.status = "error"
                             THEN Caught(op, op.reply.error)
                             ELSE Returned(op, op.reply))]
    /\ UNCHANGED <<localData, backupDir, remoteFile, remoteFolder, now,
                   uuids, written, uploaded>>

\* uploadToCloud after makeRequest settled, and the handler's return.
ContinueUpload(s) ==
    /\ ops[s].pc = "settled"
    /\ ops[s].kind \in {"upload", "legacyUpload"}
    /\ LET op == ops[s]
       IN  IF ~op.settle.ok
           THEN /\ ops' = [ops EXCEPT ![s] = Finish(op, Caught(op, op.settle.error))]
                /\ UNCHANGED <<config, disk>>
           ELSE IF op.reply.status = "error"
           THEN /\ ops' = [ops EXCEPT ![s] = Finish(op, Caught(op, op.reply.error))]
                /\ UNCHANGED <<config, disk>>
           ELSE \E saved \in BOOLEAN :
                /\ config' = [config EXCEPT !.lastSync = now]
                /\ disk' = IF saved THEN Persisted(config') ELSE disk
                /\ ops' = [ops EXCEPT ![s] =
                        Finish(op, IF saved THEN Returned(op, op.reply)
                                   ELSE Caught(op, "config.save failed"))]
    /\ UNCHANGED <<localData, backupDir, remoteFile, remoteFolder, now,
                   uuids, written, uploaded>>

(***************************************************************************)
(* CLOUD_SYNC_DOWNLOAD and the legacy GOOGLE_DRIVE_DOWNLOAD.               *)
(***************************************************************************)
\* Mutant: the handler calls downloadFromCloud without awaiting
\* createLocalBackup first.
StartDownloadWithoutBackup(s) ==
    /\ Ready(s)
    /\ now' = now + 1
    /\ \E kind \in {"download", "legacyDownload"} :
            ops' = [ops EXCEPT ![s] =
                makeRequest(NewOp(kind, "start"), PlainRequest("download"), config.url)]
    /\ UNCHANGED <<config, disk, localData, backupDir, remoteFile,
                   remoteFolder, uuids, written, uploaded>>

StartDownload(s) ==
    /\ Ready(s)
    /\ now' = now + 1
    /\ \E kind \in {"download", "legacyDownload"} :
            ops' = [ops EXCEPT ![s] = NewOp(kind, "backup")]
    /\ UNCHANGED <<config, disk, localData, backupDir, remoteFile,
                   remoteFolder, uuids, written, uploaded>>

\* Mutant: createLocalBackup rethrows what it caught, so that the handler
\* returns the error without calling downloadFromCloud.
BackupFailureBlocks(s) ==
    /\ ops[s].pc = "backup"
    /\ \E fsFault \in FsFaults, removed \in 0..1 :
        LET b == createLocalBackup(backupDir, localData, now, fsFault, removed)
        IN  /\ backupDir' = b.dir
            /\ written' = IF b.wrote THEN written \cup {now} ELSE written
            /\ ops' = [ops EXCEPT ![s] =
                    IF b.path = 0
                    THEN Finish([@ EXCEPT !.wrote = b.wrote,
                                          !.log = Append(@, "backup")],
                                Result("object", "error", "backup failed", 0, FALSE))
                    ELSE makeRequest([@ EXCEPT !.backupPath = b.path,
                                               !.wrote = b.wrote,
                                               !.log = Append(@, "backup")],
                                     PlainRequest("download"), config.url)]
    /\ now' = now + 1
    /\ UNCHANGED <<config, disk, localData, remoteFile, remoteFolder, uuids,
                   uploaded>>

\* await createLocalBackup(), then downloadFromCloud() up to its request.
\* The file name is taken from the clock when the call starts; the call's
\* file-system work takes time, so the next call reads a later clock.
Backup(s) ==
    /\ ops[s].pc = "backup"
    /\ \E fsFault \in FsFaults, removed \in 0..1 :
        LET b == createLocalBackup(backupDir, localData, now, fsFault, removed)
        IN  /\ backupDir' = b.dir
            /\ written' = IF b.wrote THEN written \cup {now} ELSE written
            /\ ops' = [ops EXCEPT ![s] =
                    makeRequest([@ EXCEPT !.backupPath = b.path, !.wrote = b.wrote,
                                          !.log = Append(@, "backup")],
                                PlainRequest("download"), config.url)]
    /\ now' = now + 1
    /\ UNCHANGED <<config, disk, localData, remoteFile, remoteFolder, uuids,
                   uploaded>>

\* Mutant: downloadFromCloud without the schema version check.
DownloadRejectionNoVersionCheck(reply) ==
    IF reply.status = "error" THEN reply.error
    ELSE IF ~reply.hasPayload THEN "No data payload in response"
    ELSE IF ~Truthy(reply.payload, "info")
    THEN "Invalid data format: missing info field"
    ELSE IF Truthy(reply.payload, "hk4e") \/ Truthy(reply.payload, "list") THEN ""
    ELSE "Invalid data format"

\* downloadFromCloud's checks of the response: the message of the error it
\* throws, "" when it goes on to import.
DownloadRejection(reply) ==
    IF reply.status = "error" THEN reply.error
    ELSE IF ~reply.hasPayload THEN "No data payload in response"
    ELSE IF reply.schemaVersion # 0 /\ reply.schemaVersion > SCHEMA_VERSION
    THEN "Incompatible data format version. Please update the application."
    ELSE IF ~Truthy(reply.payload, "info")
    THEN "Invalid data format: missing info field"
    ELSE IF Truthy(reply.payload, "hk4e") \/ Truthy(reply.payload, "list") THEN ""
    ELSE "Invalid data format"

\* Mutant: downloadFromCloud looks for list before hk4e.
ImporterListFirst(data) == IF Truthy(data, "list") THEN "importUgif30Json" ELSE "importUgif41Json"

\* The import collaborator downloadFromCloud calls.
Importer(data) == IF Truthy(data, "hk4e") THEN "importUgif41Json" ELSE "importUgif30Json"

ContinueDownload(s) ==
    /\ ops[s].pc = "settled"
    /\ ops[s].kind \in {"download", "legacyDownload"}
    /\ LET op == ops[s]
       IN  ops' = [ops EXCEPT ![s] =
               IF ~op.settle.ok THEN Finish(op, Caught(op, op.settle.error))
               ELSE IF DownloadRejection(op.reply) # ""
               THEN Finish(op, Caught(op, DownloadRejection(op.reply)))
               ELSE [op EXCEPT !.pc = "import", !.doc = op.reply.payload,
                               !.log = Append(op.log, Importer(op.reply.payload))]]
    /\ UNCHANGED <<config, disk, localData, backupDir, remoteFile,
                   remoteFolder, now, uuids, written, uploaded>>

\* The importer returns or throws; then lastSync, config.save(), the return.
ImportDone(s) ==
    /\ ops[s].pc = "import"
    /\ LET op == ops[s]
           is41 == Importer(op.doc) = "importUgif41Json"
           readable == IF is41 THEN Importable41(op.doc) ELSE Importable30(op.doc)
       IN  \E imported \in BOOLEAN, saved \in BOOLEAN :
            IF imported /\ readable
            THEN /\ localData' = IF is41 THEN Imported41(op.doc) ELSE Imported30(op.doc)
                 /\ config' = [config EXCEPT !.lastSync = now]
                 /\ disk' = IF saved THEN Persisted(config') ELSE disk
                 /\ ops' = [ops EXCEPT ![s] =
                        Finish(op, IF saved THEN Returned(op, op.reply)
                                   ELSE Caught(op, "config.save failed"))]
            ELSE /\ ops' = [ops EXCEPT ![s] = Finish(op, Caught(op, "import failed"))]
                 /\ UNCHANGED <<localData, config, disk>>
    /\ UNCHANGED <<backupDir, remoteFile, remoteFolder, now, uuids, written,
                   uploaded>>

(***************************************************************************)
(* The transport: what happens to a request of makeRequest in flight.      *)
(***************************************************************************)
\* The endpoint runs the script: doPost for a POST, doGet for a GET; a GET
\* that follows the redirect of an answered POST fetches that answer.
EndpointExecutes(s) ==
    /\ ops[s].pc = "wait"
    /\ LET op == ops[s]
           r == IF op.method = "POST"
                THEN doPost(op.request, remoteFile, remoteFolder, now)
                ELSE IF op.echo
                THEN [reply |-> op.reply, file |-> remoteFile, folder |-> remoteFolder]
                ELSE doGet(remoteFile, remoteFolder)
       IN  /\ remoteFile' = r.file
           /\ remoteFolder' = r.folder
           /\ uploaded' = IF op.method = "POST" /\ op.request.action = "upload"
                              /\ r.reply.status = "ok"
                           THEN op.request.payload ELSE uploaded
           /\ ops' = [ops EXCEPT ![s] =
                  [op EXCEPT !.pc = "answered", !.reply = r.reply, !.reached = TRUE]]
    /\ UNCHANGED <<config, disk, localData, backupDir, now, uuids, written>>

\* res.on('end') with a 2xx status and a JSON body: resolve(JSON.parse(body)).
Deliver(s) ==
    /\ ops[s].pc = "answered"
    /\ ops' = [ops EXCEPT ![s] = [@ EXCEPT !.pc = "settled",
                                           !.settle = Settlement(TRUE, "")]]
    /\ UNCHANGED <<config, disk, localData, backupDir, remoteFile,
                   remoteFolder, now, uuids, written, uploaded>>

Locations == {"absolute", "relative", "malformed"}

\* A 3xx response with a Location header: makeRequest(null, newUrl), a GET
\* without body.  new URL(location, base) throws on a malformed Location,
\* inside the response callback, where nothing catches it.
RedirectTo(s, location) ==
    /\ ops[s].pc \in {"wait", "answered"}
    /\ ops' = [ops EXCEPT ![s] =
            IF location = "malformed"
            THEN [@ EXCEPT !.pc = "stuck", !.reached = TRUE,
                           !.escaped = @ \cup {"uncaughtException"}]
            ELSE [@ EXCEPT !.pc = "wait", !.method = "GET",
                           !.request = PlainRequest("none"),
                           !.hops = @ + 1, !.reached = TRUE,
                           !.echo = @ \/ ops[s].pc = "answered",
                           !.log = Append(@, "request")]]
    /\ UNCHANGED <<config, disk, localData, backupDir, remoteFile,
                   remoteFolder, now, uuids, written, uploaded>>

Redirect(s) == \E location \in Locations : RedirectTo(s, location)

Failures == {"transport", "timeout", "status", "body"}

FailureMessage(failure) ==
    CASE failure = "transport" -> "connect ECONNREFUSED"
      [] failure = "timeout" -> "Request timeout"
      [] failure = "status" -> "Request failed with status"
      [] OTHER -> "Failed to parse JSON response"

\* reject(...): req.on('error'), the 30 s timeout, a status that is neither
\* 2xx nor a 3xx with Location, a body that is not JSON.  After the uncaught
\* error of a malformed redirect only the timeout is left.
FailWith(s, failure) ==
    /\ ops[s].pc \in {"wait", "answered", "stuck"}
    /\ ops[s].pc = "stuck" => failure = "timeout"
    /\ ops' = [ops EXCEPT ![s] =
            [@ EXCEPT !.pc = "settled",
                      !.settle = Settlement(FALSE, FailureMessage(failure))]]
    /\ UNCHANGED <<config, disk, localData, backupDir, remoteFile,
                   remoteFolder, now, uuids, written, uploaded>>

Fail(s) == \E failure \in Failures : FailWith(s, failure)

ScriptError == "Exception: Service error: Drive"

\* The catch clause of doPost / doGet: a Drive call of the script throws
\* before the script has written anything, and the endpoint answers 200
\* with {status: 'error', error: err.toString()}.
ScriptThrows(s) ==
    /\ ops[s].pc = "wait"
    /\ ~ops[s].echo
    /\ ops' = [ops EXCEPT ![s] =
            [@ EXCEPT !.pc = "answered", !.reached = TRUE,
                      !.reply = ErrorReply(ScriptError, "undefined")]]
    /\ UNCHANGED <<config, disk, localData, backupDir, remoteFile,
                   remoteFolder, now, uuids, written, uploaded>>

(***************************************************************************)
(* Initial states: a fresh installation (no client identifier, never       *)
(* synced, no backups) with any settings and local data, and a Drive that  *)
(* holds no data file or one another installation or a later revision of   *)
(* the script has written.                                                 *)
(***************************************************************************)
LocalDatas == {NoData, <<2, 1>>}

OtherUpload(doc, version) ==
    SetField(SetField(doc, "_schemaVersion", Scalar(version)), "_clientId", Scalar(9))

ForeignDocs ==
    {OtherUpload(generateUigf41Json(<<2>>), CURRENT_SCHEMA_VERSION),
     OtherUpload(generateUigf30Json(<<1>>), CURRENT_SCHEMA_VERSION + 1),
     OtherUpload(<<Field("list", ArrayOf(Records(1)))>>, CURRENT_SCHEMA_VERSION),
     OtherUpload(<<Field("info", ObjectValue)>>, CURRENT_SCHEMA_VERSION)}

InitialRemoteFiles == {NoFile} \cup {DriveFile(Stringify(d), 1) : d \in ForeignDocs}

Init ==
    /\ config \in [url : Urls, uigfVersion : {"3.0", "4.1"}, clientId : {0},
                   lastSync : {0}]
    /\ disk = [clientId |-> 0, lastSync |-> 0]
    /\ localData \in LocalDatas
    /\ backupDir = {}
    /\ remoteFile \in InitialRemoteFiles
    /\ remoteFolder = {}
    /\ now = 0
    /\ uuids = 0
    /\ written = {}
    /\ uploaded = NoDoc
    /\ ops = [s \in Slots |-> IdleOp]
    /\ ui = UiIdle
    /\ wire = <<>>
    /\ drive = NoDrive

\* The steps of the handler invocation in slot s and of its request.
Step(s) ==
    \/ now < MaxClock /\ StartMetadata(s) /\ UNCHANGED <<ui, wire, drive>>
    \/ ContinueMetadata(s) /\ UNCHANGED <<ui, wire, drive>>
    \/ now < MaxClock /\ StartUpload(s) /\ UNCHANGED <<ui, wire, drive>>
    \/ Generated(s) /\ UNCHANGED <<ui, wire, drive>>
    \/ ContinueUpload(s) /\ UNCHANGED <<ui, wire, drive>>
    \/ now < MaxClock /\ StartDownload(s) /\ UNCHANGED <<ui, wire, drive>>
    \/ Backup(s) /\ UNCHANGED <<ui, wire, drive>>
    \/ ContinueDownload(s) /\ UNCHANGED <<ui, wire, drive>>
    \/ ImportDone(s) /\ UNCHANGED <<ui, wire, drive>>
    \/ EndpointExecutes(s) /\ UNCHANGED <<ui, wire, drive>>
    \/ Deliver(s) /\ UNCHANGED <<ui, wire, drive>>
    \/ ops[s].hops < MaxHops /\ Redirect(s) /\ UNCHANGED <<ui, wire, drive>>
    \/ Fail(s) /\ UNCHANGED <<ui, wire, drive>>

\* One sync action at a time, as the settings page issues them.
Next == Step("a")

Spec == Init /\ [][Next]_vars

(***************************************************************************)
(* Repeated backups: download after download on an installation whose      *)
(* endpoint is not usable, so that every invocation ends after its backup. *)
(***************************************************************************)
InitBackup ==
    /\ Init
    /\ config.url # "valid"
    /\ remoteFile = NoFile

NextBackup ==
    \/ now < MaxBackupClock /\ StartDownload("a") /\ UNCHANGED <<ui, wire, drive>>
    \/ Backup("a") /\ UNCHANGED <<ui, wire, drive>>
    \/ ContinueDownload("a") /\ UNCHANGED <<ui, wire, drive>>

SpecBackup == InitBackup /\ [][NextBackup]_vars

(***************************************************************************)
(* Redirect chains: conflict checks against an endpoint that may answer    *)
(* every request of a call with a redirect.                                *)
(***************************************************************************)
InitRedirect ==
    /\ Init
    /\ config.url = "valid"

NextRedirect ==
    \/ now < MaxClock /\ StartMetadata("a") /\ UNCHANGED <<ui, wire, drive>>
    \/ EndpointExecutes("a") /\ UNCHANGED <<ui, wire, drive>>
    \/ Deliver("a") /\ UNCHANGED <<ui, wire, drive>>
    \/ ops["a"].hops < MaxChain /\ Redirect("a") /\ UNCHANGED <<ui, wire, drive>>
    \/ Fail("a") /\ UNCHANGED <<ui, wire, drive>>
    \/ ContinueMetadata("a") /\ UNCHANGED <<ui, wire, drive>>

SpecRedirect == InitRedirect /\ [][NextRedirect]_vars

(***************************************************************************)
(* Downloads into a backup directory that earlier runs have filled.  The   *)
(* files are named by the wall clock of their creation, which need not be  *)
(* behind the clock of this run.                                           *)
(***************************************************************************)
PriorDirs ==
    {{}, (MaxStamp - KEEP_BACKUPS + 2)..MaxStamp,
         (MaxStamp - KEEP_BACKUPS + 1)..MaxStamp}

InitPrune ==
    /\ config \in [url : {"valid"}, uigfVersion : {"3.0", "4.1"}, clientId : {0},
                   lastSync : {0}]
    /\ disk = [clientId |-> 0, lastSync |-> 0]
    /\ localData = <<2, 1>>
    /\ backupDir \in PriorDirs
    /\ written = backupDir
    /\ remoteFile \in InitialRemoteFiles
    /\ remoteFolder = {}
    /\ now = 0
    /\ uuids = 0
    /\ uploaded = NoDoc
    /\ ops = [s \in Slots |-> IdleOp]
    /\ ui = UiIdle
    /\ wire = <<>>
    /\ drive = NoDrive

NextPrune ==
    \/ now < MaxClock /\ StartDownload("a") /\ UNCHANGED <<ui, wire, drive>>
    \/ Backup("a") /\ UNCHANGED <<ui, wire, drive>>
    \/ EndpointExecutes("a") /\ UNCHANGED <<ui, wire, drive>>
    \/ Deliver("a") /\ UNCHANGED <<ui, wire, drive>>
    \/ Fail("a") /\ UNCHANGED <<ui, wire, drive>>
    \/ ContinueDownload("a") /\ UNCHANGED <<ui, wire, drive>>
    \/ ImportDone("a") /\ UNCHANGED <<ui, wire, drive>>

SpecPrune == InitPrune /\ [][NextPrune]_vars

(***************************************************************************)
(* Overlapping invocations: ipcMain.handle starts a handler for every      *)
(* invoke it receives, whether or not an earlier one has returned.         *)
(* Every request is answered here; Spec covers the failing ones.           *)
(***************************************************************************)
InitOverlap ==
    /\ Init
    /\ config.url = "valid"
    /\ config.uigfVersion = "3.0"
    /\ localData # NoData
    /\ remoteFile = NoFile

StepOverlap(s) ==
    \/ now < MaxOverlapClock /\ StartUpload(s) /\ UNCHANGED <<ui, wire, drive>>
    \/ Generated(s) /\ UNCHANGED <<ui, wire, drive>>
    \/ ContinueUpload(s) /\ UNCHANGED <<ui, wire, drive>>
    \/ now < MaxOverlapClock /\ StartDownload(s) /\ UNCHANGED <<ui, wire, drive>>
    \/ Backup(s) /\ UNCHANGED <<ui, wire, drive>>
    \/ ContinueDownload(s) /\ UNCHANGED <<ui, wire, drive>>
    \/ ImportDone(s) /\ UNCHANGED <<ui, wire, drive>>
    \/ EndpointExecutes(s) /\ UNCHANGED <<ui, wire, drive>>
    \/ Deliver(s) /\ UNCHANGED <<ui, wire, drive>>

NextOverlap == \E s \in Slots : StepOverlap(s)

SpecOverlap == InitOverlap /\ [][NextOverlap]_vars

(***************************************************************************)
(* The remote store on its own: any client posts any envelope to it.       *)
(***************************************************************************)
Envelopes ==
    {UploadRequest(v, APP_VERSION, 9, 0, NullHash, TRUE, d) :
        v \in 0..MaxVersion,
        d \in {generateUigf30Json(<<1>>), generateUigf41Json(<<1, 2>>)}}
    \cup {UploadRequest(v, APP_VERSION, 9, 0, NullHash, FALSE, NoDoc) :
            v \in 0..MaxVersion}
    \cup {PlainRequest("metadata"), PlainRequest("download")}

\* One execution of doPost.
RemotePost(s) ==
    /\ Ready(s)
    /\ now' = now + 1
    /\ \E request \in Envelopes :
        LET r == doPost(request, remoteFile, remoteFolder, now')
        IN  /\ remoteFile' = r.file
            /\ remoteFolder' = r.folder
            /\ ops' = [ops EXCEPT ![s] =
                    Finish([NewOp("post", "start") EXCEPT
                                !.request = request, !.reply = r.reply,
                                !.reached = TRUE],
                           NoResult)]
    /\ UNCHANGED <<config, disk, localData, backupDir, uuids, written, uploaded>>

InitRemote ==
    /\ Init
    /\ config.url = "valid"
    /\ config.uigfVersion = "3.0"
    /\ localData = NoData

NextRemote == now < MaxClock /\ RemotePost("a") /\ UNCHANGED <<ui, wire, drive>>

SpecRemote == InitRemote /\ [][NextRemote]_vars

(***************************************************************************)
(* The cloud sync part of the settings page (Setting.vue).  The page       *)
(* issues its invokes through slot "a"; here the user waits for an         *)
(* operation to return before the next click.                              *)
(***************************************************************************)
\* :disabled of both buttons; the modal dialog covers them while visible.
ButtonsEnabled ==
    /\ config.url # "unset"
    /\ ~ui.loading
    /\ ~ui.visible
    /\ Ready("a")

\* The invoke of CLOUD_SYNC_UPLOAD / CLOUD_SYNC_DOWNLOAD by performUpload /
\* performDownload.
InvokeUpload == StartUpload("a") /\ ops'["a"].kind = "upload"

InvokeDownload == StartDownload("a") /\ ops'["a"].kind = "download"

\* The conflict check a handleCloud* function awaits has returned.
MetadataReturned(handler) ==
    /\ ui.handler = handler
    /\ ops["a"].kind = "metadata"
    /\ ops["a"].pc = "done"

\* handleCloudUpload up to its await.
handleCloudUpload ==
    /\ ButtonsEnabled
    /\ ~ui.uploading
    /\ StartMetadata("a")
    /\ ui' = [ui EXCEPT !.loading = TRUE, !.handler = "upload",
                        !.storeHeld = remoteFile.exists, !.confirmed = FALSE]

\* handleCloudUpload: result.cloud.exists, the dialog is shown.
UploadAsksConfirmation ==
    /\ MetadataReturned("upload")
    /\ ops["a"].result.status # "error"
    /\ ops["a"].result.cloud.exists
    /\ ui' = [ui EXCEPT !.loading = FALSE, !.handler = "none",
                        !.visible = TRUE, !.action = "upload"]
    /\ UNCHANGED <<config, disk, localData, backupDir, remoteFile,
                   remoteFolder, now, uuids, written, uploaded, ops>>

\* handleCloudUpload: "No cloud data, proceed directly".
UploadProceedsDirectly ==
    /\ MetadataReturned("upload")
    /\ ops["a"].result.status # "error"
    /\ ~ops["a"].result.cloud.exists
    /\ InvokeUpload
    /\ ui' = [ui EXCEPT !.handler = "none", !.uploading = TRUE]

\* handleCloudDownload up to its await.
handleCloudDownload ==
    /\ ButtonsEnabled
    /\ ~ui.downloading
    /\ StartMetadata("a")
    /\ ui' = [ui EXCEPT !.loading = TRUE, !.handler = "download",
                        !.storeHeld = remoteFile.exists, !.confirmed = FALSE]

\* handleCloudDownload after the check: a warning when the cloud side does
\* not exist, the dialog otherwise.
DownloadChecked ==
    /\ MetadataReturned("download")
    /\ ops["a"].result.status # "error"
    /\ ui' = IF ops["a"].result.cloud.exists
             THEN [ui EXCEPT !.loading = FALSE, !.handler = "none",
                             !.visible = TRUE, !.action = "download"]
             ELSE [ui EXCEPT !.loading = FALSE, !.handler = "none"]
    /\ UNCHANGED <<config, disk, localData, backupDir, remoteFile,
                   remoteFolder, now, uuids, written, uploaded, ops>>

\* The cancel button of the dialog.
CancelDialog ==
    /\ ui.visible
    /\ ui' = [ui EXCEPT !.visible = FALSE]
    /\ UNCHANGED <<config, disk, localData, backupDir, remoteFile,
                   remoteFolder, now, uuids, written, uploaded, ops>>

confirmCloudUpload ==
    /\ ui.visible
    /\ ui.action = "upload"
    /\ InvokeUpload
    /\ ui' = [ui EXCEPT !.visible = FALSE, !.uploading = TRUE,
                        !.confirmed = TRUE]

confirmCloudDownload ==
    /\ ui.visible
    /\ ui.action = "download"
    /\ InvokeDownload
    /\ ui' = [ui EXCEPT !.visible = FALSE, !.downloading = TRUE,
                        !.confirmed = TRUE]

\* performUpload / performDownload after the invoke returned: on success
\* saveSetting() sends googleDriveLastSync with the other settings to
\* SAVE_CONFIG.
PerformReturned ==
    /\ ui.uploading \/ ui.downloading
    /\ ops["a"].kind \in {"upload", "download"}
    /\ ops["a"].pc = "done"
    /\ ui' = [ui EXCEPT !.uploading = FALSE, !.downloading = FALSE,
                        !.loading = FALSE]
    /\ IF ops["a"].result.status = "error"
       THEN UNCHANGED <<config, disk>>
       ELSE /\ config' = [config EXCEPT !.lastSync =
                            IF ops["a"].result.cloudTimestamp # 0
                            THEN ops["a"].result.cloudTimestamp ELSE now]
            /\ disk' = Persisted(config')
    /\ UNCHANGED <<localData, backupDir, remoteFile, remoteFolder, now,
                   uuids, written, uploaded, ops>>

NextUi ==
    \/ now < MaxClock /\ handleCloudUpload /\ UNCHANGED <<wire, drive>>
    \/ UploadAsksConfirmation /\ UNCHANGED <<wire, drive>>
    \/ now < MaxClock /\ UploadProceedsDirectly /\ UNCHANGED <<wire, drive>>
    \/ now < MaxClock /\ handleCloudDownload /\ UNCHANGED <<wire, drive>>
    \/ DownloadChecked /\ UNCHANGED <<wire, drive>>
    \/ CancelDialog /\ UNCHANGED <<wire, drive>>
    \/ now < MaxClock /\ confirmCloudUpload /\ UNCHANGED <<wire, drive>>
    \/ now < MaxClock /\ confirmCloudDownload /\ UNCHANGED <<wire, drive>>
    \/ PerformReturned /\ UNCHANGED <<wire, drive>>
    \/ ContinueMetadata("a") /\ UNCHANGED <<ui, wire, drive>>
    \/ Generated("a") /\ UNCHANGED <<ui, wire, drive>>
    \/ ContinueUpload("a") /\ UNCHANGED <<ui, wire, drive>>
    \/ Backup("a") /\ UNCHANGED <<ui, wire, drive>>
    \/ ContinueDownload("a") /\ UNCHANGED <<ui, wire, drive>>
    \/ ImportDone("a") /\ UNCHANGED <<ui, wire, drive>>
    \/ EndpointExecutes("a") /\ UNCHANGED <<ui, wire, drive>>
    \/ Deliver("a") /\ UNCHANGED <<ui, wire, drive>>
    \/ Fail("a") /\ UNCHANGED <<ui, wire, drive>>

SpecUi == Init /\ [][NextUi]_vars

(***************************************************************************)
(* Answered requests: every request reaches the endpoint and is answered   *)
(* with status 200, by the script's action or by its catch clause.         *)
(***************************************************************************)
InitProtocol ==
    /\ Init
    /\ config.url = "valid"

NextProtocol ==
    \/ now < MaxClock /\ StartMetadata("a") /\ UNCHANGED <<ui, wire, drive>>
    \/ ContinueMetadata("a") /\ UNCHANGED <<ui, wire, drive>>
    \/ now < MaxClock /\ StartUpload("a") /\ UNCHANGED <<ui, wire, drive>>
    \/ Generated("a") /\ UNCHANGED <<ui, wire, drive>>
    \/ ContinueUpload("a") /\ UNCHANGED <<ui, wire, drive>>
    \/ now < MaxClock /\ StartDownload("a") /\ UNCHANGED <<ui, wire, drive>>
    \/ Backup("a") /\ UNCHANGED <<ui, wire, drive>>
    \/ ContinueDownload("a") /\ UNCHANGED <<ui, wire, drive>>
    \/ ImportDone("a") /\ UNCHANGED <<ui, wire, drive>>
    \/ EndpointExecutes("a") /\ UNCHANGED <<ui, wire, drive>>
    \/ ScriptThrows("a") /\ UNCHANGED <<ui, wire, drive>>
    \/ Deliver("a") /\ UNCHANGED <<ui, wire, drive>>

SpecProtocol == InitProtocol /\ [][NextProtocol]_vars

(***************************************************************************)
(* The requests on the wire: what makeRequest passes to https.request for  *)
(* one call and the redirects it follows.  A URL is its host and its path. *)
(***************************************************************************)
\* config.googleAppsScriptUrl when it is a valid URL.
ScriptUrl == [host |-> "script.google.com", path |-> "/macros/s/exec"]

\* The URL an absolute Location header names, and the path a relative one
\* names.
AbsoluteLocation == [host |-> "script.googleusercontent.com", path |-> "/macros/echo"]

RelativeLocation == "/macros/echo"

\* Mutant: a relative Location is resolved against the configured URL.
ResolveAgainstConfigured(location, base) ==
    IF location = "absolute" THEN AbsoluteLocation
    ELSE [host |-> ScriptUrl.host, path |-> RelativeLocation]

\* new URL(location, targetUrlStr)
Resolve(location, base) ==
    IF location = "absolute" THEN AbsoluteLocation
    ELSE [host |-> base.host, path |-> RelativeLocation]

\* One https.request: options.method, the URL, whether req.write was called
\* and with what; status and location are those of its response.
Sent(method, url, hasBody, body) ==
    [method |-> method, url |-> url, hasBody |-> hasBody, body |-> body,
     status |-> "none", location |-> "none"]

\* The request of makeRequest(payload), if the promise executor gets to it.
FirstRequest(op) ==
    IF op.pc = "wait" THEN <<Sent(op.method, ScriptUrl, TRUE, op.request)>>
    ELSE <<>>

\* The response to the request sent last.
Respond(w, status, location) ==
    [w EXCEPT ![Len(w)].status = status, ![Len(w)].location = location]

\* A 3xx response with a Location header: makeRequest(null, newUrl).
Follow(s) ==
    \E location \in Locations :
        /\ RedirectTo(s, location)
        /\ wire' = IF location = "malformed"
                   THEN Respond(wire, "3xx", location)
                   ELSE Append(Respond(wire, "3xx", location),
                               Sent(ops'[s].method,
                                    Resolve(location, wire[Len(wire)].url),
                                    FALSE, ops'[s].request))

\* A 3xx response without a Location header: the body is read and the
\* status, not being 2xx, rejects the call.
NoLocation(s) ==
    /\ ops[s].pc \in {"wait", "answered"}
    /\ FailWith(s, "status")
    /\ wire' = Respond(wire, "3xx", "none")

InitTransport ==
    /\ Init
    /\ config.url = "valid"
    /\ localData # NoData
    /\ remoteFile = NoFile

NextTransport ==
    \/ now < MaxWireClock /\ StartMetadata("a") /\ wire' = FirstRequest(ops'["a"]) /\ UNCHANGED <<ui, drive>>
    \/ now < MaxWireClock /\ StartUpload("a") /\ wire' = <<>> /\ UNCHANGED <<ui, drive>>
    \/ Generated("a") /\ wire' = FirstRequest(ops'["a"]) /\ UNCHANGED <<ui, drive>>
    \/ now < MaxWireClock /\ StartDownload("a") /\ wire' = <<>> /\ UNCHANGED <<ui, drive>>
    \/ Backup("a") /\ wire' = FirstRequest(ops'["a"]) /\ UNCHANGED <<ui, drive>>
    \/ ops["a"].hops < MaxFollow /\ Follow("a") /\ UNCHANGED <<ui, drive>>
    \/ NoLocation("a") /\ UNCHANGED <<ui, drive>>
    \/ EndpointExecutes("a") /\ UNCHANGED <<ui, wire, drive>>
    \/ Deliver("a") /\ wire' = Respond(wire, "2xx", "none") /\ UNCHANGED <<ui, drive>>
    \/ Fail("a") /\ UNCHANGED <<ui, wire, drive>>
    \/ ContinueMetadata("a") /\ UNCHANGED <<ui, wire, drive>>
    \/ ContinueUpload("a") /\ UNCHANGED <<ui, wire, drive>>
    \/ ContinueDownload("a") /\ UNCHANGED <<ui, wire, drive>>
    \/ ImportDone("a") /\ UNCHANGED <<ui, wire, drive>>

SpecTransport == InitTransport /\ [][NextTransport]_vars

(***************************************************************************)
(* Downloads of whatever document the store holds: documents of both       *)
(* shapes, of both at once, of neither, with and without info, with fields *)
(* that are null or not arrays.  A request may be redirected before the    *)
(* script runs, and is answered otherwise.                                 *)
(***************************************************************************)
ShapeDocs ==
    {generateUigf41Json(<<2>>),
     generateUigf30Json(<<1>>),
     <<Field("info", ObjectValue), Field("hk4e", ArrayOf(<<Account(1)>>)),
       Field("list", ArrayOf(Records(2)))>>,
     <<Field("info", ObjectValue), Field("hk4e", Null),
       Field("list", ArrayOf(Records(1)))>>,
     <<Field("info", ObjectValue)>>,
     <<Field("list", ArrayOf(Records(1)))>>,
     <<Field("info", Null), Field("list", ArrayOf(Records(1)))>>,
     <<Field("info", ObjectValue), Field("hk4e", ObjectValue)>>}

InitShapes ==
    /\ config \in [url : {"valid"}, uigfVersion : {"3.0", "4.1"}, clientId : {0},
                   lastSync : {0}]
    /\ disk = [clientId |-> 0, lastSync |-> 0]
    /\ localData \in LocalDatas
    /\ backupDir = {}
    /\ remoteFile \in {NoFile} \cup
            {DriveFile(Stringify(OtherUpload(d, CURRENT_SCHEMA_VERSION)), 1) :
                d \in ShapeDocs}
    /\ remoteFolder = {}
    /\ now = 0
    /\ uuids = 0
    /\ written = {}
    /\ uploaded = NoDoc
    /\ ops = [s \in Slots |-> IdleOp]
    /\ ui = UiIdle
    /\ wire = <<>>
    /\ drive = NoDrive

NextShapes ==
    \/ now < MaxClock /\ StartDownload("a") /\ UNCHANGED <<ui, wire, drive>>
    \/ Backup("a") /\ UNCHANGED <<ui, wire, drive>>
    \/ EndpointExecutes("a") /\ UNCHANGED <<ui, wire, drive>>
    \/ Deliver("a") /\ UNCHANGED <<ui, wire, drive>>
    \/ ops["a"].hops < MaxHops /\ Redirect("a") /\ UNCHANGED <<ui, wire, drive>>
    \/ ContinueDownload("a") /\ UNCHANGED <<ui, wire, drive>>
    \/ ImportDone("a") /\ UNCHANGED <<ui, wire, drive>>

SpecShapes == InitShapes /\ [][NextShapes]_vars

(***************************************************************************)
(* Record counting on its own: both countRecords functions applied to any  *)
(* parsed JSON document.                                                   *)
(***************************************************************************)
\* What an entry of hk4e can be: a bucket with a list of 0 or 2 records, an
\* object without list, an object whose list is not an array, a number,
\* null.
CountItems ==
    {Account(0), Account(2), Item(TRUE, "absent", 0), Item(TRUE, "other", 0),
     Item(FALSE, "absent", 0), NullItem}

\* No such field.
Absent == Value("absent", <<>>, 0)

\* The values of the hk4e field and of the list field.
CountHk4e ==
    {Absent, Null, ObjectValue, ArrayOf(<<>>)}
    \cup {ArrayOf(<<i>>) : i \in CountItems}
    \cup {ArrayOf(<<i, j>>) : i, j \in CountItems}

CountList == {Absent, Null, ObjectValue} \cup {ArrayOf(Records(n)) : n \in 0..2}

CountDoc(hk4e, list) ==
    (IF hk4e = Absent THEN <<>> ELSE <<Field("hk4e", hk4e)>>)
    \o (IF list = Absent THEN <<>> ELSE <<Field("list", list)>>)

\* One application of the two functions to a document: the client's count
\* in the result, the script's in the reply, a TypeError among escaped.
Count(s) ==
    /\ Ready(s)
    /\ now' = now + 1
    /\ \E hk4e \in CountHk4e, list \in CountList :
        LET data == CountDoc(hk4e, list)
        IN  ops' = [ops EXCEPT ![s] =
                Finish([NewOp("count", "start") EXCEPT
                            !.doc = data,
                            !.reply.recordCount = scriptCountRecords(data),
                            !.escaped =
                                (IF countRecordsThrows(data)
                                 THEN {"TypeError"} ELSE {})
                                \cup (IF scriptCountRecordsThrows(data)
                                      THEN {"scriptTypeError"} ELSE {})],
                       [NoResult EXCEPT !.recordCount = countRecords(data)])]
    /\ UNCHANGED <<config, disk, localData, backupDir, remoteFile,
                   remoteFolder, uuids, written, uploaded>>

InitCount ==
    /\ Init
    /\ config.url = "valid"
    /\ config.uigfVersion = "3.0"
    /\ localData = NoData
    /\ remoteFile = NoFile

NextCount == now < MaxClock /\ Count("a") /\ UNCHANGED <<ui, wire, drive>>

SpecCount == InitCount /\ [][NextCount]_vars

(***************************************************************************)
(* The direct Drive implementation (OAuth): GOOGLE_DRIVE_DOWNLOAD calling  *)
(* downloadFile.  remoteFile stands for the Drive file that                *)
(* config.googleDriveFileId names.                                         *)
(***************************************************************************)
\* What getDriveClient and downloadFile find in the configuration.
Credentials == {"noClient", "noToken", "noFileId", "ok"}

CredentialsError(credentials) ==
    CASE credentials = "noClient" -> "Please set Google Client ID and Secret in settings."
      [] credentials = "noToken" -> "Not authenticated. Please auth first."
      [] OTHER -> "No synced file found."

\* The handler and downloadFile up to drive.files.get.
downloadFile(s) ==
    /\ Ready(s)
    /\ now' = now + 1
    /\ \E credentials \in Credentials :
        ops' = [ops EXCEPT ![s] =
            IF credentials # "ok"
            THEN Finish(NewOp("driveDownload", "start"),
                        Caught(NewOp("driveDownload", "start"),
                               CredentialsError(credentials)))
            ELSE [NewOp("driveDownload", "get") EXCEPT !.log = <<"request">>]]
    /\ UNCHANGED <<config, disk, localData, backupDir, remoteFile,
                   remoteFolder, uuids, written, uploaded>>

\* drive.files.get returns or throws; the check of the data; the call of
\* importUgif30Json.
DriveResponds(s) ==
    /\ ops[s].pc = "get"
    /\ \E answered \in BOOLEAN :
        LET op == ops[s]
            data == Parse(remoteFile.content)
        IN  ops' = [ops EXCEPT ![s] =
                IF ~answered \/ ~remoteFile.exists
                THEN Finish(op, Caught(op, "File not found"))
                ELSE IF Truthy(data, "info") /\ Truthy(data, "list")
                THEN [op EXCEPT !.pc = "driveImport", !.doc = data, !.reached = TRUE,
                                !.log = Append(op.log, "importUgif30Json")]
                ELSE Finish([op EXCEPT !.reached = TRUE],
                            Caught(op, "Invalid file format from Drive"))]
    /\ UNCHANGED <<config, disk, localData, backupDir, remoteFile,
                   remoteFolder, now, uuids, written, uploaded>>

\* importUgif30Json returns or throws; the handler returns.
DriveImportDone(s) ==
    /\ ops[s].pc = "driveImport"
    /\ \E imported \in BOOLEAN :
        LET op == ops[s]
        IN  IF imported /\ Importable30(op.doc)
            THEN /\ localData' = Imported30(op.doc)
                 /\ ops' = [ops EXCEPT ![s] =
                        Finish(op, Result("string", "", "success", 0, FALSE))]
            ELSE /\ ops' = [ops EXCEPT ![s] = Finish(op, Caught(op, "import failed"))]
                 /\ UNCHANGED localData
    /\ UNCHANGED <<config, disk, backupDir, remoteFile, remoteFolder, now,
                   uuids, written, uploaded>>

InitDrive ==
    /\ Init
    /\ config.url = "unset"

NextDrive ==
    \/ now < MaxClock /\ downloadFile("a") /\ UNCHANGED <<ui, wire, drive>>
    \/ DriveResponds("a") /\ UNCHANGED <<ui, wire, drive>>
    \/ DriveImportDone("a") /\ UNCHANGED <<ui, wire, drive>>

SpecDrive == InitDrive /\ [][NextDrive]_vars

(***************************************************************************)
(* The direct Drive implementation: GOOGLE_DRIVE_UPLOAD calling uploadFile.*)
(* The log of an invocation lists its calls of the Drive API ("update",    *)
(* "create"), their failures ("404", "error") and its recursive calls      *)
(* ("retry").                                                              *)
(***************************************************************************)
\* The handler calls uploadFile().
StartDriveUpload(s) ==
    /\ Ready(s)
    /\ now' = now + 1
    /\ ops' = [ops EXCEPT ![s] = NewOp("driveUpload", "prepare")]
    /\ UNCHANGED <<config, disk, localData, backupDir, remoteFile,
                   remoteFolder, uuids, written, uploaded, drive>>

\* uploadFile from its start to the call of the Drive API: getDriveClient,
\* generateUigf30Json, then files.update if a file id is remembered and
\* files.create otherwise.
uploadFile(s) ==
    /\ ops[s].pc = "prepare"
    /\ \E credentials \in {"noClient", "noToken", "ok"} :
        LET op == ops[s]
        IN  ops' = [ops EXCEPT ![s] =
                IF credentials # "ok"
                THEN Finish(op, Caught(op, CredentialsError(credentials)))
                ELSE IF GenerateFails(localData)
                THEN Finish(op, Caught(op, "No local data"))
                ELSE IF drive.fileId # 0
                THEN [op EXCEPT !.pc = "update", !.log = Append(@, "update")]
                ELSE [op EXCEPT !.pc = "create", !.log = Append(@, "create")]]
    /\ UNCHANGED <<config, disk, localData, backupDir, remoteFile,
                   remoteFolder, now, uuids, written, uploaded, drive>>

DriveOutcomes == {"ok", "404", "error"}

\* The catch clause of uploadFile for the error of a Drive call: the new
\* drive and op.
DriveCallFailed(op, outcome) ==
    IF outcome = "404" /\ drive.fileId # 0
    THEN [drive |-> [drive EXCEPT !.fileId = 0],
          op |-> [op EXCEPT !.pc = "prepare",
                            !.log = op.log \o <<"404", "retry">>]]
    ELSE [drive |-> drive,
          op |-> Finish([op EXCEPT !.log = Append(@, outcome)],
                        Caught(op, IF outcome = "404" THEN "File not found"
                                   ELSE "Drive request failed"))]

\* Mutant: the catch clause retries without clearing the file id.
UpdateRespondsKeepsId(s) ==
    /\ ops[s].pc = "update"
    /\ \E outcome \in DriveOutcomes :
        LET op == ops[s]
        IN  /\ ops' = [ops EXCEPT ![s] =
                    IF outcome = "ok"
                    THEN Finish(op, Result("string", "", "success", 0, FALSE))
                    ELSE DriveCallFailed(op, outcome).op]
            /\ UNCHANGED drive
    /\ UNCHANGED <<config, disk, localData, backupDir, remoteFile,
                   remoteFolder, now, uuids, written, uploaded>>

\* drive.files.update returns or throws.
UpdateResponds(s) ==
    /\ ops[s].pc = "update"
    /\ \E outcome \in DriveOutcomes :
        LET op == ops[s]
        IN  IF outcome = "ok"
            THEN /\ ops' = [ops EXCEPT ![s] =
                        Finish(op, Result("string", "", "success", 0, FALSE))]
                 /\ UNCHANGED drive
            ELSE /\ ops' = [ops EXCEPT ![s] = DriveCallFailed(op, outcome).op]
                 /\ drive' = DriveCallFailed(op, outcome).drive
    /\ UNCHANGED <<config, disk, localData, backupDir, remoteFile,
                   remoteFolder, now, uuids, written, uploaded>>

\* drive.files.create returns or throws; after it returned, the file id is
\* set and config.save() awaited.
CreateResponds(s) ==
    /\ ops[s].pc = "create"
    /\ \E outcome \in DriveOutcomes, saved \in BOOLEAN :
        LET op == ops[s]
            id == drive.created + 1
        IN  IF outcome = "ok"
            THEN /\ drive' = [fileId |-> id,
                              savedFileId |-> IF saved THEN id ELSE drive.savedFileId,
                              created |-> id]
                 /\ ops' = [ops EXCEPT ![s] =
                        Finish(op, IF saved
                                   THEN Result("string", "", "success", 0, FALSE)
                                   ELSE Caught(op, "config.save failed"))]
            ELSE /\ ops' = [ops EXCEPT ![s] = DriveCallFailed(op, outcome).op]
                 /\ drive' = DriveCallFailed(op, outcome).drive
    /\ UNCHANGED <<config, disk, localData, backupDir, remoteFile,
                   remoteFolder, now, uuids, written, uploaded>>

InitDriveUpload ==
    /\ Init
    /\ config.url = "unset"
    /\ remoteFile = NoFile

NextDriveUpload ==
    \/ now < MaxDriveClock /\ StartDriveUpload("a") /\ UNCHANGED <<ui, wire>>
    \/ uploadFile("a") /\ UNCHANGED <<ui, wire>>
    \/ UpdateResponds("a") /\ UNCHANGED <<ui, wire>>
    \/ CreateResponds("a") /\ UNCHANGED <<ui, wire>>

\* Every await of uploadFile settles: the continuation runs.
SpecDriveUpload ==
    /\ InitDriveUpload
    /\ [][NextDriveUpload]_vars
    /\ WF_vars(uploadFile("a") /\ UNCHANGED <<ui, wire>>)
    /\ WF_vars(UpdateResponds("a") /\ UNCHANGED <<ui, wire>>)
    /\ WF_vars(CreateResponds("a") /\ UNCHANGED <<ui, wire>>)

(***************************************************************************)
(* Properties.                                                             *)
(***************************************************************************)
Downloads == {"download", "legacyDownload"}

Uploads == {"upload", "legacyUpload"}

Importers == {"importUgif41Json", "importUgif30Json"}

Done(s) == ops[s].pc = "done"

\* The handler reported a failure: {status: 'error'} or a legacy message.
Failed(op) ==
    IF op.result.shape = "string" THEN op.result.error # "success"
    ELSE op.result.status = "error"

Logged(op, events) == \E i \in 1..Len(op.log) : op.log[i] \in events

\* C1: in every download operation (CLOUD_SYNC_DOWNLOAD and the legacy
\* GOOGLE_DRIVE_DOWNLOAD) createLocalBackup has completed before the
\* download request is sent and before any importer is called.
C1_BackupBeforeDownload ==
    \A s \in Slots :
        ops[s].kind \in Downloads =>
            \A i \in 1..Len(ops[s].log) :
                ops[s].log[i] \in {"request"} \cup Importers =>
                    \E j \in 1..(i - 1) : ops[s].log[j] = "backup"

C1_Witness ==
    \E s \in Slots :
        /\ Done(s)
        /\ ops[s].kind \in Downloads
        /\ ~Failed(ops[s])
        /\ Logged(ops[s], {"request"})
        /\ Logged(ops[s], Importers)

\* C2 (as claimed): whenever createLocalBackup returned a path P and the
\* download or import then failed, the result has status "error", carries
\* the message, backupPath = P and the backup-preserved flag.
C2_FailureCarriesBackupPath ==
    \A s \in Slots :
        (/\ Done(s)
         /\ ops[s].kind \in Downloads
         /\ ops[s].backupPath # 0
         /\ Failed(ops[s]))
        => /\ ops[s].result.status = "error"
           /\ ops[s].result.error # ""
           /\ ops[s].result.backupPath = ops[s].backupPath
           /\ ops[s].result.backupPreserved

IncompatibleMessage ==
    "Incompatible data format version. Please update the application."

\* The download call received a response whose schemaVersion is newer than
\* SCHEMA_VERSION.
NewerResponse(op) ==
    /\ op.kind \in Downloads
    /\ op.pc \in {"import", "done"}
    /\ op.settle.ok
    /\ op.reply.schemaVersion > SCHEMA_VERSION

\* C3 (as claimed): every download response with a newer schemaVersion
\* fails with the incompatible-version error, without import and without a
\* change of lastSyncTimestamp.
C3_NewerVersionFailsIncompatible ==
    \A s \in Slots :
        NewerResponse(ops[s]) =>
            /\ Done(s)
            /\ ops[s].result.error = IncompatibleMessage
            /\ ~Logged(ops[s], Importers)
            /\ config.lastSync = ops[s].pre.config.lastSync

\* C3 (amended): a response with a newer schemaVersion never leads to an
\* import or a change of lastSyncTimestamp, and the operation fails; the
\* error is the incompatible-version one when the response has status other
\* than "error" and carries a payload.
C3_NewerVersionNeverImported ==
    \A s \in Slots :
        NewerResponse(ops[s]) =>
            /\ Done(s)
            /\ Failed(ops[s])
            /\ ~Logged(ops[s], Importers)
            /\ config.lastSync = ops[s].pre.config.lastSync
            /\ (ops[s].reply.status # "error" /\ ops[s].reply.hasPayload)
                    => ops[s].result.error = IncompatibleMessage

C3_Witness ==
    \E s \in Slots :
        /\ NewerResponse(ops[s])
        /\ ops[s].reply.hasPayload
        /\ ops[s].kind = "download"
        /\ ops[s].result.status = "error"
        /\ ops[s].result.error = IncompatibleMessage

\* C4 (as claimed): an operation that ends with an error leaves
\* config.googleDriveLastSync as it was before the operation.
C4_ErrorLeavesLastSync ==
    \A s \in Slots :
        (Done(s) /\ Failed(ops[s])) =>
            config.lastSync = ops[s].pre.config.lastSync

\* C5: the hasConflict of a conflict check is true iff both sides exist and
\* their hashes differ, and false whenever a side does not exist, also when
\* its fetch failed.
C5_ConflictIffBothExistAndDiffer ==
    \A s \in Slots :
        (Done(s) /\ ops[s].kind = "metadata") =>
            LET r == ops[s].result
                cloudThere == /\ ops[s].settle.ok
                              /\ ops[s].reply.status = "ok"
                              /\ ops[s].reply.exists = "true"
                localThere == ops[s].pre.localData # NoData
            IN  /\ r.cloud.exists = cloudThere
                /\ r.local.exists = localThere
                /\ r.hasConflict =
                        IF cloudThere /\ localThere /\ r.cloud.hash # r.local.hash
                        THEN "true" ELSE "false"

C5_Witness ==
    \E s \in Slots :
        /\ Done(s) /\ ops[s].kind = "metadata"
        /\ ops[s].result.hasConflict = "true"
        /\ ops[s].result.cloud.hash # ops[s].result.local.hash
        /\ ops[s].result.cloud.exists
        /\ ops[s].result.local.exists

\* The n most recently created of a set of backup artifacts.
Newest(files, n) ==
    {f \in files : Cardinality({g \in files : g > f}) < n}

\* After more than ten written backups the directory holds exactly the ten
\* most recent ones, and it never holds more than ten.
Rotated ==
    /\ Cardinality(backupDir) <= KEEP_BACKUPS
    /\ Cardinality(written) > KEEP_BACKUPS
            => backupDir = Newest(written, KEEP_BACKUPS)

C7_NoFailureEscapes ==
    \A s \in Slots :
        ops[s].kind \in {"metadata", "upload", "download"} =>
            /\ ops[s].escaped = {}
            /\ Done(s) => /\ ops[s].result.shape = "object"
                          /\ ops[s].result.status \in {"ok", "error"}

\* C8 (as claimed): a request never follows more than a bounded number of
\* redirects (e.g. 5); it fails instead of following a further one.
C8_RedirectsBounded == \A s \in Slots : ops[s].hops <= 5

\* C9 (as claimed): the payload a download receives after an upload of D
\* has, computed as the client computes it, the fingerprint of D.
C9_RoundTripHash ==
    \A s \in Slots :
        (/\ ops[s].kind \in Downloads
         /\ ops[s].pc \in {"import", "done"}
         /\ ops[s].doc # NoDoc
         /\ uploaded # NoDoc)
        => calculateHash(ops[s].doc) = calculateHash(uploaded)

\* An upload or download whose only request failed at the transport level
\* before it reached the endpoint.
Unreachable(op) ==
    /\ op.kind \in {"upload", "download"}
    /\ op.pc = "done"
    /\ Logged(op, {"request"})
    /\ ~op.reached
    /\ op.hops = 0
    /\ ~op.settle.ok
    /\ op.settle.error = FailureMessage("transport")

ReportsTransportError(op) ==
    /\ op.result.shape = "object"
    /\ op.result.status = "error"
    /\ op.result.error = FailureMessage("transport")

\* C10 (as claimed): with the endpoint unreachable an upload or download
\* resolves to {status: "error", error: <transport message>} and the
\* persisted configuration, the backup directory and the local document
\* are exactly as before the operation.
C10_UnreachableChangesNothing ==
    \A s \in Slots :
        Unreachable(ops[s]) =>
            /\ ReportsTransportError(ops[s])
            /\ disk = ops[s].pre.disk
            /\ backupDir = ops[s].pre.backupDir
            /\ localData = ops[s].pre.localData

\* C10 (amended): with the endpoint unreachable the operation resolves to
\* the transport error, the last-sync timestamp of the configuration and
\* the local document are unchanged, a client identifier that was set is
\* unchanged, an upload leaves the backup directory alone and a download
\* adds at most one artifact to it, its own backup.
C10_UnreachableKeepsSyncState ==
    \A s \in Slots :
        Unreachable(ops[s]) =>
            /\ ReportsTransportError(ops[s])
            /\ config.lastSync = ops[s].pre.config.lastSync
            /\ localData = ops[s].pre.localData
            /\ ops[s].pre.config.clientId # 0
                    => config.clientId = ops[s].pre.config.clientId
            /\ ops[s].kind = "upload" => backupDir = ops[s].pre.backupDir
            /\ ops[s].kind = "download" =>
                    /\ Cardinality(backupDir \ ops[s].pre.backupDir) <= 1
                    /\ ops[s].backupPath # 0 =>
                            backupDir \ ops[s].pre.backupDir = {ops[s].backupPath}

C10_Witness ==
    \E s \in Slots :
        /\ Unreachable(ops[s])
        /\ ops[s].kind = "upload"
        /\ ops[s].pre.config.clientId = 0
        /\ disk.clientId # 0
        /\ ReportsTransportError(ops[s])

\* The remote fetch of a conflict check failed: makeRequest rejected or the
\* endpoint answered {status: "error"}.
CloudFetchFailed(op) ==
    /\ op.kind = "metadata"
    /\ op.pc = "done"
    /\ ~op.settle.ok \/ op.reply.status = "error"

\* C11 (as claimed): when only the remote fetch of a conflict check fails,
\* the result has status "ok", the remote side is reported as
\* {exists: false, error: <message>} and the local side with its real
\* existence, timestamp, hash and record count.
C11_FailedSideReportsError ==
    \A s \in Slots :
        (CloudFetchFailed(ops[s]) /\ ops[s].pre.localData # NoData) =>
            /\ ops[s].result.status = "ok"
            /\ ~ops[s].result.cloud.exists
            /\ "error" \in ops[s].result.sideKeys
            /\ ops[s].result.local = ops[s].localMeta
            /\ ops[s].result.local.exists

\* A step of a conflict check in slot s.
MetadataStep(s) == ops'[s] # ops[s] /\ ops'[s].kind = "metadata"

\* C12: no step of a conflict check changes the local document, the
\* persisted configuration, the local backup directory, the remote stored
\* document or the remote backup folder.
C12_MetadataReadOnly ==
    [][(\E s \in Slots : MetadataStep(s)) =>
            UNCHANGED <<localData, disk, config, backupDir, remoteFile,
                        remoteFolder>>]_vars

C12_Witness ==
    \E s \in Slots :
        /\ Done(s)
        /\ ops[s].kind = "metadata"
        /\ ops[s].reached
        /\ ops[s].result.cloud.exists
        /\ ops[s].result.local.exists
        /\ remoteFile.exists

\* The createLocalBackup call of a download operation has returned.
BackedUp(op) == op.kind \in Downloads /\ Logged(op, {"backup"})

\* C13 (as claimed): createLocalBackup returns null only when there is no
\* local document; whenever it wrote a backup file it returns a path, and
\* the result of CLOUD_SYNC_DOWNLOAD carries it.
C13_NullOnlyWithoutDocument ==
    \A s \in Slots :
        BackedUp(ops[s]) =>
            /\ ops[s].backupPath = 0 => ops[s].pre.localData = NoData
            /\ ops[s].wrote => ops[s].backupPath # 0
            /\ (Done(s) /\ ops[s].kind = "download" /\ ops[s].wrote)
                    => ops[s].result.backupPath \in written

\* A download that started with a local document and failed in its import.
ImportFailed(op) ==
    /\ op.kind \in Downloads
    /\ op.pc = "done"
    /\ op.pre.localData # NoData
    /\ Logged(op, Importers)
    /\ Failed(op)

\* C14 (as claimed): a download that starts with a local document and fails
\* during import has left exactly one new backup artifact in the backup
\* directory when it returns, whatever files the directory held.
C14_FailedImportLeavesBackup ==
    \A s \in Slots :
        ImportFailed(ops[s]) =>
            Cardinality(backupDir \ ops[s].pre.backupDir) = 1

\* An upload or download in slot s has started and not yet returned.
InFlight(s) ==
    /\ ops[s].kind \in Uploads \cup Downloads
    /\ ops[s].pc \notin {"idle", "done"}

\* C15 (as claimed): at most one upload or download operation is in flight
\* at any time.
C15_OneInFlight ==
    \A s, t \in Slots : (InFlight(s) /\ InFlight(t)) => s = t

\* C16: every step that overwrites an existing stored document leaves that
\* document's content in the backup folder, and no step removes a file
\* from the backup folder.
C16_OverwriteBacksUp ==
    [][/\ (remoteFile' # remoteFile /\ remoteFile.exists)
            => remoteFile.content \in remoteFolder'
       /\ remoteFolder \subseteq remoteFolder']_vars

C16_Witness ==
    /\ Cardinality(remoteFolder) >= 2
    /\ remoteFile.exists
    /\ uploaded # NoDoc
    /\ remoteFile.content \notin remoteFolder

\* The endpoint has just executed an upload envelope in slot s.
UploadPosted(s) ==
    /\ ops'[s] # ops[s]
    /\ ops'[s].reached
    /\ ops'[s].request.action = "upload"

\* C17: an upload envelope whose schemaVersion exceeds
\* CURRENT_SCHEMA_VERSION, or that has no payload, is answered with status
\* "error" and leaves the stored document and the backup folder unchanged.
C17_NewerUploadRejected ==
    [][\A s \in Slots :
        (/\ UploadPosted(s)
         /\ \/ ops'[s].request.schemaVersion > CURRENT_SCHEMA_VERSION
            \/ ~ops'[s].request.hasPayload)
        => /\ ops'[s].reply.status = "error"
           /\ UNCHANGED <<remoteFile, remoteFolder>>]_vars

C17_Witness ==
    \E s \in Slots :
        /\ Done(s)
        /\ ops[s].request.action = "upload"
        /\ ops[s].request.schemaVersion > CURRENT_SCHEMA_VERSION
        /\ ops[s].request.hasPayload
        /\ ops[s].reply.status = "error"
        /\ remoteFile.exists
        /\ remoteFolder # {}

\* A CLOUD_SYNC_DOWNLOAD whose request the endpoint executed while the
\* store held no document (no download changes the store).
EmptyStoreDownload(op) ==
    /\ op.kind = "download"
    /\ op.pc = "done"
    /\ op.reached
    /\ op.hops = 0
    /\ remoteFile = NoFile

\* A step of a download operation in slot s.
DownloadStep(s) == ops'[s] # ops[s] /\ ops'[s].kind \in Downloads

\* C18: when the store holds no document the download action answers
\* {status: "error", exists: false}, no step of a download changes the
\* remote state, and the client's download ends with status "error",
\* without import, with lastSync unchanged, its backup step having run
\* before the request.
C18_EmptyStoreDownloadFails ==
    /\ [](\A s \in Slots :
            EmptyStoreDownload(ops[s]) =>
                /\ ops[s].settle.ok =>
                        /\ ops[s].reply.status = "error"
                        /\ ops[s].reply.exists = "false"
                        /\ ops[s].result.error = ops[s].reply.error
                /\ ops[s].result.status = "error"
                /\ ops[s].log = <<"backup", "request">>
                /\ config.lastSync = ops[s].pre.config.lastSync
                /\ localData = ops[s].pre.localData)
    /\ [][(\E s \in Slots : DownloadStep(s))
            => UNCHANGED <<remoteFile, remoteFolder>>]_vars

C18_Witness ==
    \E s \in Slots :
        /\ EmptyStoreDownload(ops[s])
        /\ ops[s].settle.ok
        /\ ops[s].backupPath # 0
        /\ ops[s].result.error = "No data file found in cloud storage"
        /\ ops[s].result.backupPath \in backupDir

\* The upload in slot s has built its envelope.
EnvelopeBuilt(s) ==
    /\ ops[s].kind \in Uploads
    /\ ops[s].request.action = "upload"

\* C19: crypto.randomUUID() is called at most once, no step changes a
\* client identifier that is set, and every upload envelope carries the
\* identifier of the configuration.
C19_ClientIdStable ==
    /\ [](/\ uuids <= 1
          /\ \A s \in Slots :
                EnvelopeBuilt(s) =>
                    /\ ops[s].request.clientId # 0
                    /\ ops[s].request.clientId = config.clientId)
    /\ [][config.clientId # 0 => config'.clientId = config.clientId]_vars

C19_Witness ==
    \E s, t \in Slots :
        /\ s # t
        /\ InFlight(s) /\ EnvelopeBuilt(s)
        /\ InFlight(t) /\ EnvelopeBuilt(t)
        /\ ops[s].request.clientId = ops[t].request.clientId
        /\ ops[s].pre.config.clientId = 0
        /\ ops[t].pre.config.clientId = 0

\* C20 (as claimed): the page invokes CLOUD_SYNC_DOWNLOAD only after the
\* user confirmed in the dialog, and when the store held a document as the
\* user clicked upload it invokes CLOUD_SYNC_UPLOAD only after the user
\* confirmed, also when the remote metadata fetch failed.
C20_ConfirmedBeforeOverwrite ==
    /\ ops["a"].kind = "download" => ui.confirmed
    /\ (ops["a"].kind = "upload" /\ ui.storeHeld) => ui.confirmed

\* The call of makeRequest resolved with a body whose status is "error".
ErrorBody(op) ==
    /\ op.kind \in {"metadata"} \cup Uploads \cup Downloads
    /\ op.pc \in {"settled", "import", "done"}
    /\ op.reached
    /\ op.settle.ok
    /\ op.reply.status = "error"

\* C21: a 2xx response whose body has status "error" makes getCloudMetadata,
\* uploadToCloud and downloadFromCloud fail with the remote's message: the
\* operation never imports, never changes lastSync, and its upload or
\* download result is a failure carrying that message.
C21_ErrorBodyIsFailure ==
    \A s \in Slots :
        ErrorBody(ops[s]) =>
            /\ ops[s].pc # "import"
            /\ ~Logged(ops[s], Importers)
            /\ localData = ops[s].pre.localData
            /\ config.lastSync = ops[s].pre.config.lastSync
            /\ getCloudMetadata(ops[s].settle, ops[s].reply).status = "error"
            /\ getCloudMetadata(ops[s].settle, ops[s].reply).error = ops[s].reply.error
            /\ Done(s) =>
                    IF ops[s].kind = "metadata"
                    THEN ~ops[s].result.cloud.exists
                    ELSE /\ Failed(ops[s])
                         /\ ops[s].result.error = ops[s].reply.error

C21_Witness ==
    \E s \in Slots :
        /\ ErrorBody(ops[s])
        /\ Done(s)
        /\ ops[s].kind = "upload"
        /\ ops[s].result.status = "error"
        /\ ops[s].result.error = ScriptError
        /\ remoteFile.exists

\* The createLocalBackup call of the download in slot s returns.
BackupReturns(s) == ops[s].pc = "backup" /\ ops'[s] # ops[s]

\* C22: whatever happens inside createLocalBackup, the download operation
\* goes on to downloadFromCloud: the step in which createLocalBackup
\* returns issues the download request (makeRequest rejects at once only
\* for a missing or invalid URL), and every download whose response passed
\* the checks called an importer, with or without a backup.
C22_BackupFailureNeverBlocks ==
    /\ [][\A s \in Slots :
            BackupReturns(s) =>
                IF config.url = "valid"
                THEN /\ ops'[s].pc = "wait"
                     /\ ops'[s].request.action = "download"
                     /\ ops'[s].log = <<"backup", "request">>
                ELSE /\ ops'[s].pc = "settled"
                     /\ ~ops'[s].settle.ok]_vars
    /\ [](\A s \in Slots :
            (/\ Done(s)
             /\ ops[s].kind \in Downloads
             /\ ops[s].reached
             /\ ops[s].settle.ok
             /\ DownloadRejection(ops[s].reply) = "")
            => Logged(ops[s], Importers))

C22_Witness ==
    \E s \in Slots :
        /\ Done(s)
        /\ ops[s].kind = "download"
        /\ ops[s].pre.localData # NoData
        /\ ops[s].backupPath = 0
        /\ ~ops[s].wrote
        /\ Logged(ops[s], Importers)
        /\ ~Failed(ops[s])
        /\ localData # ops[s].pre.localData

\* The action of the envelope an operation of this kind passes to
\* makeRequest.
ActionOf(kind) ==
    CASE kind = "metadata" -> "metadata"
      [] kind \in Uploads -> "upload"
      [] OTHER -> "download"

\* C23: the first request of a makeRequest call is a POST to the configured
\* URL carrying the caller's payload; every later request follows a 3xx
\* response with a Location header and is a GET without body to that
\* location, an absolute one taken as it is and a relative one resolved
\* against the URL of the redirected request; every such response is
\* followed; a 3xx response without Location is not followed and rejects
\* the call as a failed request.
C23_RedirectsAreGets ==
    LET op == ops["a"]
    IN  /\ wire # <<>> =>
            /\ wire[1].method = "POST"
            /\ wire[1].url = ScriptUrl
            /\ wire[1].hasBody
            /\ wire[1].body.action = ActionOf(op.kind)
            /\ op.kind \in Uploads =>
                    /\ wire[1].body.hasPayload
                    /\ wire[1].body.payload = op.doc
        /\ Len(wire) = IF Logged(op, {"request"}) THEN op.hops + 1 ELSE 0
        /\ \A i \in 2..Len(wire) :
            /\ wire[i].method = "GET"
            /\ ~wire[i].hasBody
            /\ wire[i - 1].status = "3xx"
            /\ wire[i - 1].location \in {"absolute", "relative"}
            /\ wire[i - 1].location = "absolute" => wire[i].url = AbsoluteLocation
            /\ wire[i - 1].location = "relative" =>
                    /\ wire[i].url.host = wire[i - 1].url.host
                    /\ wire[i].url.path = RelativeLocation
        /\ \A i \in 1..Len(wire) :
            /\ (wire[i].status = "3xx"
                    /\ wire[i].location \in {"absolute", "relative"})
                => i < Len(wire)
            /\ (wire[i].status = "3xx" /\ wire[i].location = "none")
                => /\ i = Len(wire)
                   /\ op.pc \in {"settled", "done"}
                   /\ ~op.settle.ok
                   /\ op.settle.error = FailureMessage("status")

C23_Witness ==
    /\ ops["a"].kind = "upload"
    /\ Done("a")
    /\ Len(wire) = 3
    /\ wire[1].location = "absolute"
    /\ wire[2].location = "relative"
    /\ wire[3].url.host = AbsoluteLocation.host
    /\ wire[3].status = "3xx"
    /\ wire[3].location = "none"
    /\ ops["a"].result.error = FailureMessage("status")

\* The download call of the operation resolved with a body whose status is
\* not "error".
DownloadResponse(op) ==
    /\ op.kind \in Downloads
    /\ op.pc \in {"settled", "import", "done"}
    /\ op.reached
    /\ op.settle.ok
    /\ op.reply.status # "error"

\* The payload has the info field and one of the shapes (a field that is
\* null counts as missing, as for the code).
Recognized(reply) ==
    /\ reply.hasPayload
    /\ Truthy(reply.payload, "info")
    /\ Truthy(reply.payload, "hk4e") \/ Truthy(reply.payload, "list")

ImporterCalls(op) == {i \in 1..Len(op.log) : op.log[i] \in Importers}

\* C24: a download response is imported only if its payload has info and
\* hk4e or list; a response without payload, without info or with neither
\* shape makes the operation fail without any importer call and without a
\* change of lastSync; a payload with hk4e goes to importUgif41Json,
\* otherwise one with list to importUgif30Json, and a successful download
\* has called exactly one importer.
C24_ImportOnlyRecognized ==
    \A s \in Slots :
        DownloadResponse(ops[s]) =>
            LET op == ops[s]
                p == op.reply.payload
            IN  /\ ImporterCalls(op) # {} => Recognized(op.reply)
                /\ ~Recognized(op.reply) =>
                        /\ op.pc # "import"
                        /\ ImporterCalls(op) = {}
                        /\ config.lastSync = op.pre.config.lastSync
                        /\ localData = op.pre.localData
                        /\ Done(s) => Failed(op)
                /\ \A i \in ImporterCalls(op) :
                        op.log[i] = IF Truthy(p, "hk4e") THEN "importUgif41Json"
                                    ELSE "importUgif30Json"
                /\ Cardinality(ImporterCalls(op)) <= 1
                /\ (Done(s) /\ ~Failed(op)) => Cardinality(ImporterCalls(op)) = 1

C24_Witness ==
    \E s \in Slots :
        /\ DownloadResponse(ops[s])
        /\ Done(s)
        /\ ~Failed(ops[s])
        /\ Truthy(ops[s].reply.payload, "hk4e")
        /\ Truthy(ops[s].reply.payload, "list")
        /\ ops[s].log = <<"backup", "request", "importUgif41Json">>
        /\ localData = <<1>>

\* The generation step of the upload in slot s fails.
GenerationFails(s) ==
    /\ ops[s].pc = "generate"
    /\ GenerateFails(localData)
    /\ ops'[s] # ops[s]

\* C25: when document generation fails the upload ends at once with the
\* generation error (status "error" for CLOUD_SYNC_UPLOAD), without a
\* request, without a new client identifier and without a change of the
\* configuration, in memory or persisted, or of anything else.
C25_UploadFailsFast ==
    /\ [][\A s \in Slots :
            GenerationFails(s) =>
                /\ ops'[s].pc = "done"
                /\ UNCHANGED <<config, disk, uuids, localData, backupDir,
                               remoteFile, remoteFolder, uploaded>>]_vars
    /\ [](\A s \in Slots :
            (/\ Done(s)
             /\ ops[s].kind \in Uploads
             /\ GenerateFails(ops[s].pre.localData))
            => /\ Failed(ops[s])
               /\ ops[s].result.error = "No local data"
               /\ ops[s].kind = "upload" => ops[s].result.status = "error"
               /\ ~Logged(ops[s], {"request"})
               /\ ~ops[s].reached
               /\ config = ops[s].pre.config
               /\ disk = ops[s].pre.disk)

C25_Witness ==
    \E s \in Slots :
        /\ Done(s)
        /\ ops[s].kind = "upload"
        /\ GenerateFails(ops[s].pre.localData)
        /\ config.url = "valid"
        /\ config.clientId = 0
        /\ uuids = 0
        /\ ops[s].result.status = "error"
        /\ remoteFile.exists

\* The number of records of the buckets items[1..n] that hold a list.
RECURSIVE BucketRecords(_, _)
BucketRecords(items, n) ==
    IF n = 0 THEN 0
    ELSE BucketRecords(items, n - 1)
         + (IF items[n].listKind = "array" THEN items[n].len ELSE 0)

\* The record count of a document by its shape.
RecordCount(data) ==
    IF IsArray(data, "hk4e")
    THEN BucketRecords(Get(data, "hk4e").items, Len(Get(data, "hk4e").items))
    ELSE IF IsArray(data, "list") THEN Len(Get(data, "list").items)
    ELSE 0

\* C26 (as claimed): for every document both countRecords functions return
\* the count of its shape: the sum of the list lengths of the buckets of
\* hk4e, the length of list, or zero.
C26_CountsByShape ==
    \A s \in Slots :
        (Done(s) /\ ops[s].kind = "count") =>
            /\ ops[s].escaped = {}
            /\ ops[s].result.recordCount = RecordCount(ops[s].doc)
            /\ ops[s].reply.recordCount = ops[s].result.recordCount

\* C27 (as claimed): the download of the direct Drive implementation has
\* taken a backup of the local document before it calls the importer: the
\* backup step precedes the importer call, and when there was a local
\* document a new backup file exists.
C27_DriveDownloadBacksUp ==
    \A s \in Slots :
        (ops[s].kind = "driveDownload" /\ Logged(ops[s], Importers)) =>
            /\ \A i \in 1..Len(ops[s].log) :
                    ops[s].log[i] \in Importers =>
                        \E j \in 1..(i - 1) : ops[s].log[j] = "backup"
            /\ ops[s].pre.localData # NoData =>
                    backupDir \ ops[s].pre.backupDir # {}

\* The store holds the document of the upload operation op with the
\* provenance fields uploadData adds.
StoredByUpload(op) ==
    /\ remoteFile.exists
    /\ \E time \in 0..(now + 1) :
        remoteFile.content =
            Stringify(Stamp([payload |-> op.doc, clientId |-> config.clientId,
                             appVersion |-> APP_VERSION], time))

\* C28 (as claimed): whenever CLOUD_SYNC_UPLOAD returns status "ok", with
\* lastSync updated, the remote has executed the upload action for the
\* operation's envelope and stores its payload with the provenance fields,
\* also when the POST was answered with a redirect.
C28_OkMeansStored ==
    \A s \in Slots :
        (/\ Done(s)
         /\ ops[s].kind = "upload"
         /\ ops[s].result.status = "ok")
        => /\ uploaded = ops[s].doc
           /\ StoredByUpload(ops[s])

\* A conflict check has returned whose remote fetch succeeded, while the
\* store holds the last upload of this installation and the local data
\* still generates the uploaded document.
CheckedAfterUpload(op) ==
    /\ op.kind = "metadata"
    /\ op.pc = "done"
    /\ op.settle.ok
    /\ op.reply.status = "ok"
    /\ uploaded # NoDoc
    /\ config.lastSync # 0
    /\ op.pre.localData # NoData
    /\ Generate(config.uigfVersion, op.pre.localData) = uploaded
    /\ remoteFile.exists
    /\ \E time \in 0..now :
        remoteFile.content =
            Stringify(Stamp([payload |-> uploaded, clientId |-> config.clientId,
                             appVersion |-> APP_VERSION], time))

\* C29 (as claimed): a conflict check after a successful upload, with the
\* local and the remote document unchanged since, reports hasConflict =
\* false, the two hashes being equal.
C29_NoConflictAfterUpload ==
    \A s \in Slots :
        CheckedAfterUpload(ops[s]) =>
            /\ ops[s].result.hasConflict = "false"
            /\ ops[s].result.cloud.hash = ops[s].result.local.hash

\* C30 (as claimed): a download result with backupPreserved = true names,
\* in backupPath, a backup file that exists; a failed download that took no
\* backup does not report backupPreserved = true.
C30_PreservedMeansBackup ==
    \A s \in Slots :
        (/\ Done(s)
         /\ ops[s].kind = "download"
         /\ ops[s].result.backupPreserved)
        => /\ ops[s].result.backupPath # 0
           /\ ops[s].result.backupPath \in backupDir
           /\ ops[s].wrote

\* How often the event occurs in the log of op.
Occurrences(op, event) ==
    Cardinality({i \in 1..Len(op.log) : op.log[i] = event})

\* C31: an invocation of uploadFile ends; it calls itself at most once, and
\* only after files.update failed with 404, having cleared the file id;
\* the retry calls files.create, and whatever fails there (404 included)
\* ends the invocation with that error; the persisted file id changes only
\* in the step in which files.create returned.
C31_RetriesOnce ==
    /\ [](\A s \in Slots :
            ops[s].kind = "driveUpload" =>
                LET op == ops[s]
                IN  /\ Occurrences(op, "retry") <= 1
                    /\ Occurrences(op, "update") + Occurrences(op, "create") <= 2
                    /\ Occurrences(op, "retry") = 1 =>
                            /\ SubSeq(op.log, 1, 3) = <<"update", "404", "retry">>
                            /\ Len(op.log) > 3 => op.log[4] = "create"
                            /\ Len(op.log) <= 5
                            /\ op.pc # "update"
                    /\ (op.pc = "prepare" /\ Occurrences(op, "retry") = 1)
                            => drive.fileId = 0
                    /\ (Occurrences(op, "create") = 1
                            /\ (Occurrences(op, "404") + Occurrences(op, "error")
                                    > Occurrences(op, "retry")))
                            => Done(s) /\ Failed(op))
    /\ [][drive'.savedFileId # drive.savedFileId =>
            \E s \in Slots :
                /\ ops[s].pc = "create"
                /\ ~Failed(ops'[s])
                /\ drive'.created = drive.created + 1
                /\ drive'.savedFileId = drive'.created]_vars
    /\ (\A s \in Slots : ops[s].kind = "driveUpload" ~> Done(s))

C31_Witness ==
    \E s \in Slots :
        /\ Done(s)
        /\ ops[s].kind = "driveUpload"
        /\ ops[s].log = <<"update", "404", "retry", "create", "404">>
        /\ ops[s].result.error = "File not found"
        /\ drive.fileId = 0
        /\ drive.savedFileId # 0

====
